---- MODULE Spec2Model ----
(***************************************************************************)
(* A model of the Mahjong engine (mahjong_game.py), its tile helpers       *)
(* (mahjong_common.py) and the session server (mahjong_server.py).         *)
(*                                                                         *)
(* Tiles are numbers: a suited tile "wan_3" is 10*order + point with the   *)
(* suite_order of tile_sort_key (wan 0, tiao 1, tong 2), a wind is         *)
(* 30 + wind_order and a dragon 40 + dragon_order, so that the sort key    *)
(* of a tile is <<tile \div 10, tile % 10>>.                               *)
(*                                                                         *)
(* The game rules are the ones MahjongServer.configure_game fixes: no      *)
(* joker tile and the passed-win rule switched off.                        *)
(***************************************************************************)
EXTENDS Integers, Sequences, FiniteSets, TLC

(***************************************************************************)
(* Bounds of the model.                                                    *)
(***************************************************************************)
MaxPoint == 3
NumSuits == 1
NumWinds == 1
NumDragons == 0
HandSets == 1
MaxPlayers == 3
MaxCalls == 5
MaxCallsHonors == 2
MaxCallsMany == 3
WallSpread == 0
NumConnections == 2
ExtraConnections == 1
MaxRejectCalls == 1
MaxTurnCalls == 3
ProbeMaxPoint == 4
ProbeNumWinds == 3
ProbeMaxLen == 16

(***************************************************************************)
(* mahjong_common.py                                                       *)
(***************************************************************************)
TILES_PER_TYPE == 4
MinPlayers == 2
INITIAL_HAND_SIZE == 3 * HandSets + 1

ALL_TILES_SUIT == {10 * s + v : s \in 0..(NumSuits - 1), v \in 1..MaxPoint}
ALL_TILES_WIND == {30 + w : w \in 0..(NumWinds - 1)}
ALL_TILES_DRAGON == {40 + d : d \in 0..(NumDragons - 1)}

NoTile == 0
NoPlayer == -1
ZIMO == 99

tile_sort_key(tile) == <<tile \div 10, tile % 10>>

KeyLeq(a, b) ==
    \/ tile_sort_key(a)[1] < tile_sort_key(b)[1]
    \/ /\ tile_sort_key(a)[1] = tile_sort_key(b)[1]
       /\ tile_sort_key(a)[2] <= tile_sort_key(b)[2]

RECURSIVE InsertSorted(_, _)
InsertSorted(x, s) ==
    IF s = <<>> THEN <<x>>
    ELSE IF KeyLeq(x, Head(s)) THEN <<x>> \o s
    ELSE <<Head(s)>> \o InsertSorted(x, Tail(s))

RECURSIVE sort_tiles(_)
sort_tiles(hand) ==
    IF hand = <<>> THEN <<>>
    ELSE InsertSorted(Head(hand), sort_tiles(Tail(hand)))

is_triplet(tiles) == Len(tiles) = 3 /\ \A i \in 1..Len(tiles) : tiles[i] = tiles[1]

is_quad(tiles) == Len(tiles) = 4 /\ \A i \in 1..Len(tiles) : tiles[i] = tiles[1]

(***************************************************************************)
(* Python list helpers.                                                    *)
(***************************************************************************)
Count(s, x) == Cardinality({i \in 1..Len(s) : s[i] = x})

Elems(s) == {s[i] : i \in 1..Len(s)}

ListRemove(s, x) ==
    LET i == CHOOSE k \in 1..Len(s) : s[k] = x /\ \A j \in 1..(k - 1) : s[j] # x
    IN SubSeq(s, 1, i - 1) \o SubSeq(s, i + 1, Len(s))

Repeat(x, n) == [i \in 1..n |-> x]

RECURSIVE Flatten(_)
Flatten(ss) == IF ss = <<>> THEN <<>> ELSE Head(ss) \o Flatten(Tail(ss))

(***************************************************************************)
(* class Player                                                            *)
(***************************************************************************)
NewPlayer(player_id) ==
    [player_id |-> player_id, hand |-> <<>>, melds |-> <<>>, discarded |-> <<>>,
     is_listening |-> FALSE, listening_tiles |-> <<>>,
     can_pong |-> FALSE, can_gang |-> FALSE, can_hu_discard |-> FALSE,
     \* history: the discards this player made while a response window was
     \* open, and the places in the wall (counted from 0 at the front) of the
     \* tiles start_game dealt to this player, in the order they were dealt
     discards_in_window |-> 0,
     dealt_from |-> <<>>]

add_tile(p, tile) == [p EXCEPT !.hand = sort_tiles(Append(p.hand, tile))]

remove_tile(p, tile) ==
    IF tile \in Elems(p.hand)
    THEN [p EXCEPT !.hand = sort_tiles(ListRemove(p.hand, tile))]
    ELSE p

\* can_pong_tile asking for three copies in the hand
\* a can_pong_tile satisfied by one copy in the hand
can_pong_tile_one_copy(p, tile_to_check) == Count(p.hand, tile_to_check) >= 1

can_pong_tile_three(p, tile_to_check) == Count(p.hand, tile_to_check) >= 3

can_pong_tile(p, tile_to_check) == Count(p.hand, tile_to_check) >= 2

RECURSIVE InsertMeld(_, _)
InsertMeld(m, ms) ==
    IF ms = <<>> THEN <<m>>
    ELSE IF KeyLeq(m[1], Head(ms)[1]) THEN <<m>> \o ms
    ELSE <<Head(ms)>> \o InsertMeld(m, Tail(ms))

RECURSIVE SortMelds(_)
SortMelds(ms) ==
    IF ms = <<>> THEN <<>>
    ELSE InsertMeld(Head(ms), SortMelds(Tail(ms)))

\* perform_pong taking one tile from the hand instead of two
perform_pong_one_tile(p, tile_to_pong) ==
    IF Count(p.hand, tile_to_pong) < 2 THEN <<FALSE, p>>
    ELSE LET p2 == remove_tile(p, tile_to_pong)
         IN <<TRUE, [p2 EXCEPT !.melds =
                        SortMelds(Append(p2.melds, sort_tiles(Repeat(tile_to_pong, 3))))]>>

\* perform_pong that takes the two tiles and lays down no meld
perform_pong_no_meld(p, tile_to_pong) ==
    IF Count(p.hand, tile_to_pong) < 2 THEN <<FALSE, p>>
    ELSE <<TRUE, remove_tile(remove_tile(p, tile_to_pong), tile_to_pong)>>

\* returns <<success, player>>
perform_pong(p, tile_to_pong) ==
    IF Count(p.hand, tile_to_pong) < 2 THEN <<FALSE, p>>
    ELSE LET p2 == remove_tile(remove_tile(p, tile_to_pong), tile_to_pong)
         IN <<TRUE, [p2 EXCEPT !.melds =
                        SortMelds(Append(p2.melds, sort_tiles(Repeat(tile_to_pong, 3))))]>>

\* the three lists find_possible_gangs returns, as sets (the lists are built
\* through list(set(...)), whose order is not fixed)
possible_an_gangs(p) == {t \in Elems(p.hand) : Count(p.hand, t) = 4}

possible_bu_gangs(p) ==
    {<<i - 1, p.melds[i][1]>> : i \in {k \in 1..Len(p.melds) :
        is_triplet(p.melds[k]) /\ Count(p.hand, p.melds[k][1]) >= 1}}

possible_ming_gangs(p, tile_from_discard) ==
    IF tile_from_discard # NoTile /\ Count(p.hand, tile_from_discard) = 3
    THEN {tile_from_discard} ELSE {}

RECURSIVE RemoveN(_, _, _)
RemoveN(p, tile, n) == IF n = 0 THEN p ELSE RemoveN(remove_tile(p, tile), tile, n - 1)

Min(a, b) == IF a < b THEN a ELSE b

\* a perform_gang that leaves one of the tiles of the kong in the hand
perform_gang_keeps_one(p, gang_type, tile_info) ==
    LET in_hand == IF gang_type = "an" THEN 3 ELSE IF gang_type = "ming" THEN 2 ELSE 0
        p2 == RemoveN(p, tile_info, in_hand)
    IN IF in_hand = 0 \/ Count(p.hand, tile_info) < in_hand + 1 THEN <<FALSE, p>>
       ELSE <<TRUE, [p2 EXCEPT !.melds =
                        SortMelds(Append(p2.melds, sort_tiles(Repeat(tile_info, 4))))]>>

\* returns <<success, player>>; tile_info is the tile for "an" and "ming" and
\* <<meld_index, tile>> (meld_index counted from 0) for "bu"
\* a perform_gang whose added kong takes the triplet away instead of
\* growing it
perform_gang_drops_triplet(p, gang_type, tile_info) ==
    IF gang_type = "an" \/ gang_type = "ming" THEN
        LET in_hand == IF gang_type = "an" THEN 4 ELSE 3
            p2 == RemoveN(p, tile_info, Min(Count(p.hand, tile_info), in_hand))
        IN IF Count(p.hand, tile_info) < in_hand THEN <<FALSE, p>>
           ELSE <<TRUE, [p2 EXCEPT !.melds =
                            SortMelds(Append(p2.melds, sort_tiles(Repeat(tile_info, 4))))]>>
    ELSE IF gang_type = "bu" THEN
        LET meld_index == tile_info[1]
            tile_to_complete_meld == tile_info[2]
        IN IF ~(/\ 0 <= meld_index
                /\ meld_index < Len(p.melds)
                /\ is_triplet(p.melds[meld_index + 1])
                /\ p.melds[meld_index + 1][1] = tile_to_complete_meld
                /\ Count(p.hand, tile_to_complete_meld) >= 1)
           THEN <<FALSE, p>>
           ELSE LET p2 == remove_tile(p, tile_to_complete_meld)
                IN <<TRUE, [p2 EXCEPT !.melds =
                       SubSeq(p2.melds, 1, meld_index)
                          \o SubSeq(p2.melds, meld_index + 2, Len(p2.melds))]>>
    ELSE <<FALSE, p>>

perform_gang(p, gang_type, tile_info) ==
    IF gang_type = "an" THEN
        LET removed_count == Min(Count(p.hand, tile_info), 4)
            p2 == RemoveN(p, tile_info, removed_count)
        IN IF removed_count # 4 THEN <<FALSE, p>>
           ELSE <<TRUE, [p2 EXCEPT !.melds =
                            SortMelds(Append(p2.melds, sort_tiles(Repeat(tile_info, 4))))]>>
    ELSE IF gang_type = "bu" THEN
        LET meld_index == tile_info[1]
            tile_to_complete_meld == tile_info[2]
        IN IF ~(/\ 0 <= meld_index
                /\ meld_index < Len(p.melds)
                /\ is_triplet(p.melds[meld_index + 1])
                /\ p.melds[meld_index + 1][1] = tile_to_complete_meld)
           THEN <<FALSE, p>>
           ELSE IF Count(p.hand, tile_to_complete_meld) >= 1
           THEN LET p2 == remove_tile(p, tile_to_complete_meld)
                IN <<TRUE, [p2 EXCEPT !.melds = SortMelds(
                       [p2.melds EXCEPT ![meld_index + 1] =
                           sort_tiles(Append(@, tile_to_complete_meld))])]>>
           ELSE <<FALSE, p>>
    ELSE IF gang_type = "ming" THEN
        LET removed_count == Min(Count(p.hand, tile_info), 3)
            p2 == RemoveN(p, tile_info, removed_count)
        IN IF removed_count # 3 THEN <<FALSE, p>>
           ELSE <<TRUE, [p2 EXCEPT !.melds =
                            SortMelds(Append(p2.melds, sort_tiles(Repeat(tile_info, 4))))]>>
    ELSE <<FALSE, p>>

get_tile_type_and_value(tile) == <<tile \div 10, tile % 10>>

IsNumberedSuit(tile_type) == tile_type \in {0, 1, 2}

\* a _can_form_melds_recursive that takes a sequence out of any three
\* tiles in a row, honors included
RECURSIVE can_form_melds_any_suit(_)
can_form_melds_any_suit(current_tiles_list) ==
    IF current_tiles_list = <<>> THEN TRUE
    ELSE LET sorted_current_tiles == sort_tiles(current_tiles_list)
             first_tile == sorted_current_tiles[1]
             t2 == first_tile + 1
             t3 == first_tile + 2
         IN \/ /\ Count(sorted_current_tiles, first_tile) >= 3
               /\ can_form_melds_any_suit(SubSeq(sorted_current_tiles, 4,
                                                 Len(sorted_current_tiles)))
            \/ /\ Count(sorted_current_tiles, t2) >= 1
               /\ Count(sorted_current_tiles, t3) >= 1
               /\ can_form_melds_any_suit(
                      ListRemove(ListRemove(ListRemove(sorted_current_tiles,
                                                       first_tile), t2), t3))

RECURSIVE can_form_melds_recursive(_)
can_form_melds_recursive(current_tiles_list) ==
    IF current_tiles_list = <<>> THEN TRUE
    ELSE LET sorted_current_tiles == sort_tiles(current_tiles_list)
             first_tile == sorted_current_tiles[1]
             tv == get_tile_type_and_value(first_tile)
             t2 == first_tile + 1
             t3 == first_tile + 2
         IN \/ /\ Count(sorted_current_tiles, first_tile) >= 3
               /\ can_form_melds_recursive(SubSeq(sorted_current_tiles, 4,
                                                  Len(sorted_current_tiles)))
            \/ /\ IsNumberedSuit(tv[1])
               /\ tv[2] <= 7
               /\ Count(sorted_current_tiles, t2) >= 1
               /\ Count(sorted_current_tiles, t3) >= 1
               /\ can_form_melds_recursive(
                      ListRemove(ListRemove(ListRemove(sorted_current_tiles,
                                                       first_tile), t2), t3))

check_standard_win(tiles_for_check) ==
    IF Len(tiles_for_check) % 3 # 2 \/ Len(tiles_for_check) < 2 THEN FALSE
    ELSE \E pair_tile \in Elems(tiles_for_check) :
            /\ Count(tiles_for_check, pair_tile) >= 2
            /\ can_form_melds_recursive(
                   ListRemove(ListRemove(tiles_for_check, pair_tile), pair_tile))

SevenPairsSize == 14
pairs_needed == 7

\* a count of pairs that takes four of a kind as one pair
SevenPairsQuadOnce(tiles) ==
    LET kinds == Elems(tiles)
    IN Cardinality({t \in kinds : Count(tiles, t) \in {2, 4}})

SevenPairsFound(tiles) ==
    LET kinds == Elems(tiles)
    IN Cardinality({t \in kinds : Count(tiles, t) = 2})
       + 2 * Cardinality({t \in kinds : Count(tiles, t) = 4})

\* tile_to_win = NoTile stands for the default None
\* a can_hu_tile that looks at the concealed hand only
can_hu_tile_hand_only(p, tile_to_win, is_zimo) ==
    LET all_tiles_for_check ==
            IF ~is_zimo /\ tile_to_win # NoTile THEN Append(p.hand, tile_to_win) ELSE p.hand
    IN IF Len(all_tiles_for_check) < 2 THEN FALSE
       ELSE \/ check_standard_win(all_tiles_for_check)
            \/ /\ Len(all_tiles_for_check) = SevenPairsSize
               /\ p.melds = <<>>
               /\ SevenPairsFound(all_tiles_for_check) = pairs_needed

can_hu_tile(p, tile_to_win, is_zimo) ==
    LET base == p.hand \o Flatten(p.melds)
        all_tiles_for_check ==
            IF ~is_zimo /\ tile_to_win # NoTile THEN Append(base, tile_to_win) ELSE base
    IN IF Len(all_tiles_for_check) < 2 THEN FALSE
       ELSE \/ check_standard_win(all_tiles_for_check)
            \/ /\ Len(all_tiles_for_check) = SevenPairsSize
               /\ p.melds = <<>>
               /\ SevenPairsFound(all_tiles_for_check) = pairs_needed

\* the sorted list find_listening_tiles returns and stores in listening_tiles;
\* <<>> without storing when the hand is not of size 3n+1
RECURSIVE SortedList(_)
SortedList(S) ==
    IF S = {} THEN <<>>
    ELSE LET x == CHOOSE y \in S : \A z \in S : KeyLeq(y, z)
         IN <<x>> \o SortedList(S \ {x})

ListeningOf(p, possible_draw_tiles) ==
    SortedList({t \in possible_draw_tiles : can_hu_tile(p, t, FALSE)})

find_listening_tiles(p, possible_draw_tiles) ==
    IF Len(p.hand) % 3 # 1 THEN p
    ELSE [p EXCEPT !.listening_tiles = ListeningOf(p, possible_draw_tiles)]

(***************************************************************************)
(* class Deck.  random.shuffle fixes an order nobody reads before a tile   *)
(* is popped, so the deck is the multiset of the tiles still in it and a   *)
(* pop takes any of them; front and back pops are counted apart.           *)
(***************************************************************************)
GameTiles(include_winds_dragons) ==
    ALL_TILES_SUIT \cup
    (IF include_winds_dragons THEN ALL_TILES_WIND \cup ALL_TILES_DRAGON ELSE {})

RECURSIVE SumOver(_, _)
SumOver(f, S) ==
    IF S = {} THEN 0
    ELSE LET x == CHOOSE y \in S : TRUE IN f[x] + SumOver(f, S \ {x})

NewDeck(include_winds_dragons) ==
    [tiles |-> [t \in GameTiles(include_winds_dragons) |-> TILES_PER_TYPE],
     front_pops |-> 0, back_pops |-> 0]

remaining(deck) == SumOver(deck.tiles, DOMAIN deck.tiles)

Drawable(deck) == {t \in DOMAIN deck.tiles : deck.tiles[t] > 0}

draw_tile(deck, t) ==
    [deck EXCEPT !.tiles[t] = @ - 1, !.front_pops = @ + 1]

draw_from_end(deck, t) ==
    [deck EXCEPT !.tiles[t] = @ - 1, !.back_pops = @ + 1]

(***************************************************************************)
(* class Game.  An operation maps a game to the set of games it can leave  *)
(* (one per tile the deck can give).                                       *)
(***************************************************************************)
NoDeck == [tiles |-> <<>>, front_pops |-> 0, back_pops |-> 0]

NoPending == [type |-> "none", discarded_tile |-> NoTile, discarder_id |-> NoPlayer]

NoPrompt ==
    [player_id |-> NoPlayer, actions |-> <<>>, drawn_tile |-> NoTile,
     possible_an_gangs |-> {}, possible_bu_gangs |-> {},
     is_gang_replacement |-> FALSE, from_pong_gang |-> FALSE]

NewGame(num_players, include_winds_dragons) ==
    [num_players |-> num_players,
     include_winds_dragons |-> include_winds_dragons,
     deck |-> NoDeck,
     players |-> <<>>,
     current_turn |-> 0,
     discard_pile |-> <<>>,
     last_discarded_tile |-> NoTile,
     last_discarder_id |-> NoPlayer,
     game_state |-> "waiting",
     winning_player_id |-> NoPlayer,
     winning_tile |-> NoTile,
     action_pending |-> FALSE,
     action_responses |-> <<>>,
     pending_action_info |-> NoPending,
     next_prompt_info |-> NoPrompt,
     \* what the two callbacks were given during the last operation
     response_prompts |-> <<>>,
     broadcasts |-> <<>>,
     game_over_sent |-> 0,
     \* history: the responses resolve_pending_actions read during the last
     \* operation, and how many discards a pong or an exposed kong has taken
     resolved_responses |-> <<>>,
     claimed_discards |-> 0]

all_game_tiles_list(g) == GameTiles(g.include_winds_dragons)

PlayerIds(g) == {g.players[i].player_id : i \in 1..Len(g.players)}

\* a lookup that takes every sender for the player at turn
get_player_index_of_turn(g, player_id) == g.current_turn

get_player_index_by_id(g, player_id) ==
    IF \E i \in 1..Len(g.players) : g.players[i].player_id = player_id
    THEN (CHOOSE i \in 1..Len(g.players) :
             /\ g.players[i].player_id = player_id
             /\ \A j \in 1..(i - 1) : g.players[j].player_id # player_id) - 1
    ELSE -1

get_player_by_id(g, player_id) == g.players[get_player_index_by_id(g, player_id) + 1]

Bcast(g, type, player_id, tile) ==
    [g EXCEPT !.broadcasts = Append(@, [type |-> type, player_id |-> player_id, tile |-> tile])]

add_player(g, player_obj) ==
    IF g.game_state # "waiting" THEN g
    ELSE IF Len(g.players) < g.num_players
    THEN [g EXCEPT !.players = Append(@, player_obj)]
    ELSE g

\* end_game without its check of the phase
end_game_unguarded(g, winner_id, winning_tile) ==
    LET g2 == [g EXCEPT !.game_state = "finished",
                        !.winning_player_id = winner_id,
                        !.winning_tile = winning_tile]
    IN [Bcast(g2, "game_over", winner_id, winning_tile)
           EXCEPT !.game_over_sent = @ + 1]

end_game(g, winner_id, winning_tile) ==
    IF g.game_state = "finished" THEN g
    ELSE LET g2 == [g EXCEPT !.game_state = "finished",
                             !.winning_player_id = winner_id,
                             !.winning_tile = winning_tile]
         IN [Bcast(g2, "game_over", winner_id, winning_tile)
                EXCEPT !.game_over_sent = @ + 1]

\* the own-turn actions with "gang" offered to a listening player as well
\* the own-turn actions with "ting" offered to a player who is not listening
OwnTurnActions_with_ting(player, drawn_tile) ==
    (IF can_hu_tile(player, drawn_tile, TRUE) THEN <<"hu">> ELSE <<>>)
    \o (IF ~player.is_listening
           /\ (possible_an_gangs(player) # {} \/ possible_bu_gangs(player) # {})
        THEN <<"gang">> ELSE <<>>)
    \o (IF ~player.is_listening THEN <<"ting">> ELSE <<>>)
    \o <<"discard">>

OwnTurnActions_any_kong(player, drawn_tile) ==
    (IF can_hu_tile(player, drawn_tile, TRUE) THEN <<"hu">> ELSE <<>>)
    \o (IF possible_an_gangs(player) # {} \/ possible_bu_gangs(player) # {}
        THEN <<"gang">> ELSE <<>>)
    \o <<"discard">>

OwnTurnActions(player, drawn_tile) ==
    (IF can_hu_tile(player, drawn_tile, TRUE) THEN <<"hu">> ELSE <<>>)
    \o (IF ~player.is_listening
           /\ (possible_an_gangs(player) # {} \/ possible_bu_gangs(player) # {})
        THEN <<"gang">> ELSE <<>>)
    \o <<"discard">>

\* a get_state_for_player that shows the listening tiles of every player
get_state_shows_waits(g, player_id_to_get_state_for) ==
    LET player_obj == get_player_by_id(g, player_id_to_get_state_for)
        playing == g.game_state = "playing" /\ g.players # <<>>
    IN [game_state |-> g.game_state,
        current_turn_player_id |->
            IF playing THEN g.players[g.current_turn + 1].player_id ELSE NoPlayer,
        players |-> [i \in 1..Len(g.players) |->
            LET p == g.players[i] IN
            [player_id |-> p.player_id,
             is_current_turn |->
                 (playing /\ p.player_id = g.players[g.current_turn + 1].player_id),
             hand_size |-> Len(p.hand),
             melds |-> p.melds,
             discarded |-> p.discarded,
             is_listening |-> p.is_listening,
             listening_tiles |-> p.listening_tiles]],
        your_hand |-> player_obj.hand,
        last_discarded_tile |-> g.last_discarded_tile,
        last_discarder_id |-> g.last_discarder_id,
        wall_remaining |-> IF g.deck = NoDeck THEN 0 ELSE remaining(g.deck),
        winning_player_id |-> g.winning_player_id,
        winning_tile |-> g.winning_tile,
        action_pending |-> g.action_pending,
        pending_action_info |->
            IF g.action_pending THEN g.pending_action_info ELSE NoPending]

\* the view of the game sent to one player (the names of the players and the
\* joker tile, which is None, are left out); player_id_to_get_state_for is
\* the id of a player of the game
get_state_for_player(g, player_id_to_get_state_for) ==
    LET player_obj == get_player_by_id(g, player_id_to_get_state_for)
        playing == g.game_state = "playing" /\ g.players # <<>>
    IN [game_state |-> g.game_state,
        current_turn_player_id |->
            IF playing THEN g.players[g.current_turn + 1].player_id ELSE NoPlayer,
        players |-> [i \in 1..Len(g.players) |->
            LET p == g.players[i] IN
            [player_id |-> p.player_id,
             is_current_turn |->
                 (playing /\ p.player_id = g.players[g.current_turn + 1].player_id),
             hand_size |-> Len(p.hand),
             melds |-> p.melds,
             discarded |-> p.discarded,
             is_listening |-> p.is_listening,
             listening_tiles |->
                 IF p.player_id = player_id_to_get_state_for
                 THEN p.listening_tiles ELSE <<>>]],
        your_hand |-> player_obj.hand,
        last_discarded_tile |-> g.last_discarded_tile,
        last_discarder_id |-> g.last_discarder_id,
        wall_remaining |-> IF g.deck = NoDeck THEN 0 ELSE remaining(g.deck),
        winning_player_id |-> g.winning_player_id,
        winning_tile |-> g.winning_tile,
        action_pending |-> g.action_pending,
        pending_action_info |->
            IF g.action_pending THEN g.pending_action_info ELSE NoPending]

start_player_turn(g, player_index) ==
    IF g.game_state # "playing" THEN {g}
    ELSE IF ~(0 <= player_index /\ player_index < Len(g.players)) THEN {g}
    ELSE IF Drawable(g.deck) = {} THEN {end_game(g, NoPlayer, NoTile)}
    ELSE {LET player == add_tile(g.players[player_index + 1], drawn_tile)
          IN [g EXCEPT !.deck = draw_tile(g.deck, drawn_tile),
                       !.players[player_index + 1] = player,
                       !.next_prompt_info =
                           [player_id |-> player.player_id,
                            actions |-> OwnTurnActions(player, drawn_tile),
                            drawn_tile |-> drawn_tile,
                            possible_an_gangs |-> possible_an_gangs(player),
                            possible_bu_gangs |-> possible_bu_gangs(player),
                            is_gang_replacement |-> FALSE,
                            from_pong_gang |-> FALSE]]
          : drawn_tile \in Drawable(g.deck)}

draw_and_handle_gang_replacement(g, player_index) ==
    IF g.game_state # "playing" THEN {g}
    ELSE IF Drawable(g.deck) = {} THEN {end_game(g, NoPlayer, NoTile)}
    ELSE {LET player == add_tile(g.players[player_index + 1], replacement_tile)
          IN [g EXCEPT !.deck = draw_from_end(g.deck, replacement_tile),
                       !.players[player_index + 1] = player,
                       !.next_prompt_info =
                           [player_id |-> player.player_id,
                            actions |-> OwnTurnActions(player, replacement_tile),
                            drawn_tile |-> replacement_tile,
                            possible_an_gangs |-> possible_an_gangs(player),
                            possible_bu_gangs |-> possible_bu_gangs(player),
                            is_gang_replacement |-> TRUE,
                            from_pong_gang |-> FALSE]]
          : replacement_tile \in Drawable(g.deck)}

reset_action_state(g) ==
    [g EXCEPT !.action_pending = FALSE,
              !.action_responses = <<>>,
              !.pending_action_info = NoPending,
              !.players = [i \in 1..Len(g.players) |->
                              [g.players[i] EXCEPT !.can_pong = FALSE,
                                                   !.can_gang = FALSE,
                                                   !.can_hu_discard = FALSE]]]

\* an advance_turn that goes on playing when the wall is empty
advance_turn_on_empty_wall(g) ==
    IF g.game_state # "playing" THEN {g}
    ELSE LET g2 == [g EXCEPT !.current_turn = (g.current_turn + 1) % g.num_players]
         IN IF remaining(g2.deck) = 0 THEN {g2}
            ELSE start_player_turn(g2, g2.current_turn)

\* advance_turn passing over the next seat
advance_turn_skips_seat(g) ==
    IF g.game_state # "playing" THEN {g}
    ELSE LET g2 == [g EXCEPT !.current_turn = (g.current_turn + 2) % g.num_players]
         IN IF remaining(g2.deck) = 0 THEN {end_game(g2, NoPlayer, NoTile)}
            ELSE start_player_turn(g2, g2.current_turn)

advance_turn(g) ==
    IF g.game_state # "playing" THEN {g}
    ELSE LET g2 == [g EXCEPT !.current_turn = (g.current_turn + 1) % g.num_players]
         IN IF remaining(g2.deck) = 0 THEN {end_game(g2, NoPlayer, NoTile)}
            ELSE start_player_turn(g2, g2.current_turn)

ResponseActions(player, discarded_tile) ==
    (IF can_hu_tile(player, discarded_tile, FALSE) THEN <<"hu">> ELSE <<>>)
    \o (IF ~player.is_listening /\ possible_ming_gangs(player, discarded_tile) # {}
        THEN <<"gang">> ELSE <<>>)
    \o (IF ~player.is_listening /\ can_pong_tile(player, discarded_tile)
        THEN <<"pong">> ELSE <<>>)

check_other_players_actions(g) ==
    LET discarded_tile == g.last_discarded_tile
        discarder_id == g.last_discarder_id
        discarder_index == get_player_index_by_id(g, discarder_id)
    IN IF discarded_tile = NoTile \/ discarder_id = NoPlayer THEN advance_turn(g)
       ELSE IF discarder_index = -1
       THEN advance_turn([g EXCEPT !.action_responses = <<>>])
       ELSE
       LET others == {(discarder_index + i) % g.num_players : i \in 1..(g.num_players - 1)}
           acts(idx) == ResponseActions(g.players[idx + 1], discarded_tile)
           eligible == {idx \in others : acts(idx) # <<>>}
           flagged == [i \in 1..Len(g.players) |->
                          IF (i - 1) \in others
                          THEN [g.players[i] EXCEPT
                                  !.can_hu_discard =
                                      can_hu_tile(g.players[i], discarded_tile, FALSE),
                                  !.can_gang =
                                      (~g.players[i].is_listening
                                       /\ possible_ming_gangs(g.players[i], discarded_tile) # {}),
                                  !.can_pong =
                                      (~g.players[i].is_listening
                                       /\ can_pong_tile(g.players[i], discarded_tile))]
                          ELSE g.players[i]]
           g2 == [g EXCEPT !.players = flagged,
                           !.action_responses =
                               [pid \in {g.players[idx + 1].player_id : idx \in eligible}
                                   |-> "none"]]
       IN IF eligible # {}
          THEN {[g2 EXCEPT !.action_pending = TRUE,
                           !.pending_action_info =
                               [type |-> "discard_response",
                                discarded_tile |-> discarded_tile,
                                discarder_id |-> discarder_id],
                           !.response_prompts =
                               [pid \in {g.players[idx + 1].player_id : idx \in eligible}
                                   |-> acts(get_player_index_by_id(g, pid))]]}
          ELSE advance_turn(reset_action_state(g2))

\* the scan going on after a "hu", so that the farthest "hu" is kept
RECURSIVE ResolveScanFarthest(_, _, _, _)
ResolveScanFarthest(g, discarder_idx, i, acc) ==
    IF i >= g.num_players THEN acc
    ELSE LET p_idx_check == (discarder_idx + i) % g.num_players
             p_id_check == g.players[p_idx_check + 1].player_id
             response == IF p_id_check \in DOMAIN g.action_responses
                         THEN g.action_responses[p_id_check] ELSE "none"
             hu2 == IF response = "hu" THEN p_id_check ELSE acc[1]
             gang2 == IF response = "gang" /\ acc[2] = -1 THEN p_idx_check ELSE acc[2]
             pong2 == IF response = "pong" /\ acc[3] = -1 /\ gang2 = -1
                      THEN p_idx_check ELSE acc[3]
         IN ResolveScanFarthest(g, discarder_idx, i + 1, <<hu2, gang2, pong2>>)

\* the scan of resolve_pending_actions over the seats after the discarder:
\* acc is <<hu_player_id, gang player index, pong player index>>
RECURSIVE ResolveScan(_, _, _, _)
ResolveScan(g, discarder_idx, i, acc) ==
    IF i >= g.num_players THEN acc
    ELSE LET p_idx_check == (discarder_idx + i) % g.num_players
             p_id_check == g.players[p_idx_check + 1].player_id
             response == IF p_id_check \in DOMAIN g.action_responses
                         THEN g.action_responses[p_id_check] ELSE "none"
         IN IF response = "hu" THEN <<p_id_check, acc[2], acc[3]>>
            ELSE LET gang2 == IF response = "gang" /\ acc[2] = -1
                              THEN p_idx_check ELSE acc[2]
                     pong2 == IF response = "pong" /\ acc[3] = -1 /\ gang2 = -1
                              THEN p_idx_check ELSE acc[3]
                 IN ResolveScan(g, discarder_idx, i + 1, <<acc[1], gang2, pong2>>)

\* the decision with the pong looked at first and the win last
ResolveChoicePongFirst(g) ==
    LET discarder_idx == get_player_index_by_id(g, g.pending_action_info.discarder_id)
        scan == ResolveScan(g, discarder_idx, 1, <<NoPlayer, -1, -1>>)
        ponger == {i \in 0..(g.num_players - 1) :
                     /\ g.players[i + 1].player_id \in DOMAIN g.action_responses
                     /\ g.action_responses[g.players[i + 1].player_id] = "pong"}
    IN IF ponger # {} THEN [kind |-> "pong", player |-> CHOOSE i \in ponger : TRUE]
       ELSE IF scan[2] # -1 THEN [kind |-> "gang", player |-> scan[2]]
       ELSE IF scan[1] # NoPlayer THEN [kind |-> "hu", player |-> scan[1]]
       ELSE [kind |-> "none", player |-> -1]

\* what resolve_pending_actions decides from the scan: the claim to apply
\* and the seat (for "hu": the id) of the player it is applied for
ResolveChoice(g) ==
    LET discarder_idx == get_player_index_by_id(g, g.pending_action_info.discarder_id)
        scan == ResolveScan(g, discarder_idx, 1, <<NoPlayer, -1, -1>>)
    IN IF scan[1] # NoPlayer THEN [kind |-> "hu", player |-> scan[1]]
       ELSE IF scan[2] # -1 THEN [kind |-> "gang", player |-> scan[2]]
       ELSE IF scan[3] # -1 THEN [kind |-> "pong", player |-> scan[3]]
       ELSE [kind |-> "none", player |-> -1]

resolve_pending_actions(g0) ==
    IF ~g0.action_pending THEN {g0}
    ELSE
    LET g == [g0 EXCEPT !.resolved_responses = g0.action_responses]
        discarded_tile_being_resolved == g.pending_action_info.discarded_tile
        choice == ResolveChoice(g)
    IN IF choice.kind = "hu"
       THEN {reset_action_state(end_game(g, choice.player, discarded_tile_being_resolved))}
       ELSE IF choice.kind = "gang"
       THEN LET gang_idx == choice.player
                r == perform_gang(g.players[gang_idx + 1], "ming",
                                  discarded_tile_being_resolved)
            IN IF r[1]
               THEN LET g2 == [Bcast(g, "player_ganged", r[2].player_id,
                                     discarded_tile_being_resolved)
                                  EXCEPT !.players[gang_idx + 1] = r[2],
                                         !.claimed_discards = @ + 1,
                                         !.current_turn = gang_idx]
                    IN {reset_action_state(g3) :
                            g3 \in draw_and_handle_gang_replacement(g2, gang_idx)}
               ELSE advance_turn(reset_action_state(g))
       ELSE IF choice.kind = "pong"
       THEN LET pong_idx == choice.player
                r == perform_pong(g.players[pong_idx + 1], discarded_tile_being_resolved)
            IN IF r[1]
               THEN {reset_action_state(
                       [Bcast(g, "player_ponged", r[2].player_id,
                              discarded_tile_being_resolved)
                          EXCEPT !.players[pong_idx + 1] = r[2],
                                 !.claimed_discards = @ + 1,
                                 !.current_turn = pong_idx,
                                 !.next_prompt_info =
                                     [NoPrompt EXCEPT !.player_id = r[2].player_id,
                                                      !.actions = <<"discard">>,
                                                      !.from_pong_gang = TRUE]])}
               ELSE advance_turn(reset_action_state(g))
       ELSE advance_turn(reset_action_state(g))

AllowedResponses(player) ==
    {"pass"} \cup (IF player.can_hu_discard THEN {"hu"} ELSE {})
             \cup (IF player.can_gang THEN {"gang"} ELSE {})
             \cup (IF player.can_pong THEN {"pong"} ELSE {})

handle_action_response(g, player_id, action_type) ==
    IF ~g.action_pending \/ g.pending_action_info.type # "discard_response" THEN {g}
    ELSE IF player_id \notin DOMAIN g.action_responses THEN {g}
    ELSE IF g.action_responses[player_id] # "none" THEN {g}
    ELSE IF get_player_index_by_id(g, player_id) = -1 THEN {g}
    ELSE LET player == get_player_by_id(g, player_id)
             response_type == IF action_type \in AllowedResponses(player)
                              THEN action_type ELSE "pass"
             g2 == [g EXCEPT !.action_responses[player_id] = response_type]
         IN IF \A pid \in DOMAIN g2.action_responses : g2.action_responses[pid] # "none"
            THEN resolve_pending_actions(g2)
            ELSE {g2}

\* a value of the key tile_info as json.loads gives it: a string (one tile)
\* or a list; the entries of possible_bu_gangs are tuples
JsonStr(tile) == [py |-> "str", v |-> <<tile>>]
JsonList(meld_index, tile) == [py |-> "list", v |-> <<meld_index, tile>>]
PyTuple(meld_index, tile) == [py |-> "tuple", v |-> <<meld_index, tile>>]

InPossibleAn(tile_info, player) ==
    tile_info.py = "str" /\ tile_info.v[1] \in possible_an_gangs(player)

InPossibleBu(tile_info, player) ==
    tile_info \in {PyTuple(e[1], e[2]) : e \in possible_bu_gangs(player)}

\* action_data: [action_type, tile, gang_type, tile_info]
handle_player_action(g, player_id, action_data) ==
    LET player_index == get_player_index_by_id(g, player_id) IN
    IF player_index = -1 \/ player_index # g.current_turn THEN {g}
    ELSE
    LET player == g.players[player_index + 1]
        action_type == action_data.action_type
    IN
    IF action_type = "discard" THEN
        LET tile_to_discard == action_data.tile IN
        IF tile_to_discard = NoTile \/ tile_to_discard \notin Elems(player.hand) THEN {g}
        ELSE LET p2 == [remove_tile(player, tile_to_discard)
                           EXCEPT !.discarded = Append(@, tile_to_discard),
                                  !.discards_in_window =
                                      IF g.action_pending THEN @ + 1 ELSE @]
                 g2 == [Bcast(g, "player_discarded", player_id, tile_to_discard)
                           EXCEPT !.players[player_index + 1] = p2,
                                  !.discard_pile = Append(@, tile_to_discard),
                                  !.last_discarded_tile = tile_to_discard,
                                  !.last_discarder_id = player_id]
             IN check_other_players_actions(g2)
    ELSE IF action_type = "hu" THEN
        IF can_hu_tile(player, NoTile, TRUE)
        THEN {end_game(g, player_id, ZIMO)}
        ELSE {g}
    ELSE IF action_type = "gang" THEN
        LET gang_type == action_data.gang_type
            tile_info == action_data.tile_info
            is_valid_gang ==
                \/ gang_type = "an" /\ InPossibleAn(tile_info, player)
                \/ gang_type = "bu" /\ InPossibleBu(tile_info, player)
        IN IF is_valid_gang /\ ~player.is_listening
           THEN LET r == perform_gang(player, gang_type,
                                      IF gang_type = "an" THEN tile_info.v[1]
                                      ELSE tile_info.v)
                IN IF r[1]
                   THEN draw_and_handle_gang_replacement(
                            [Bcast(g, "player_ganged", player_id,
                                   IF gang_type = "an" THEN tile_info.v[1]
                                   ELSE tile_info.v[2])
                                EXCEPT !.players[player_index + 1] = r[2]],
                            player_index)
                   ELSE {g}
           ELSE {g}
    ELSE IF action_type = "ting" THEN
        IF player.is_listening THEN {g}
        ELSE IF Len(player.hand) # INITIAL_HAND_SIZE + 1 THEN {g}
        ELSE
        \* find_listening_tiles stores its result in listening_tiles each time
        \* it is called with a tile of list(set(hand)) removed; the one that
        \* stays is that of the tile the set gives last
        LET listens(tile_to_try_discard) ==
                ListeningOf(remove_tile(player, tile_to_try_discard),
                            all_game_tiles_list(g))
            can_ting_server_check ==
                \E tile_to_try_discard \in Elems(player.hand) :
                    listens(tile_to_try_discard) # <<>>
        IN {LET p2 == [player EXCEPT !.listening_tiles = listens(last_tried)]
            IN IF ~can_ting_server_check
               THEN [g EXCEPT !.players[player_index + 1] = p2]
               ELSE [Bcast(g, "player_tinged", player_id, NoTile)
                        EXCEPT !.players[player_index + 1] =
                                   [p2 EXCEPT !.is_listening = TRUE]]
            : last_tried \in Elems(player.hand)}
    ELSE {g}

\* The shuffles considered: every one of them for two seats; for more seats
\* those that leave the wall, when the hands are dealt, on the fewest kinds of
\* tile that can hold it and at most WallSpread kinds more.  A deck passes
\* while that many kinds still hold as many tiles as the wall will.
DeckConsidered(deck, n) ==
    \/ n = MinPlayers
    \/ LET wall == TILES_PER_TYPE * Cardinality(DOMAIN deck.tiles) - INITIAL_HAND_SIZE * n
           fewest == (wall + TILES_PER_TYPE - 1) \div TILES_PER_TYPE
       IN \/ wall <= 0
          \/ \E K \in SUBSET (DOMAIN deck.tiles) :
                /\ Cardinality(K) <= fewest + WallSpread
                /\ SumOver(deck.tiles, K) >= wall

\* the dealing loop of start_game on <<deck, hands, ran out>>; positions
\* notes for every seat which pops of the wall it was given
DealOne(d, player_index) ==
    IF d.ran_out THEN {d}
    ELSE IF Drawable(d.deck) = {} THEN {[d EXCEPT !.ran_out = TRUE]}
    ELSE {[d EXCEPT !.deck = draw_tile(d.deck, tile),
                    !.hands[player_index + 1] = sort_tiles(Append(@, tile)),
                    !.positions[player_index + 1] = Append(@, d.deck.front_pops)]
          : tile \in {t \in Drawable(d.deck) :
                         DeckConsidered(draw_tile(d.deck, t), Len(d.hands))}}

\* a dealing loop that gives every seat its whole hand before the next seat
RECURSIVE DealInBlocks(_, _, _)
DealInBlocks(S, k, n) ==
    IF k = INITIAL_HAND_SIZE * n THEN S
    ELSE DealInBlocks(UNION {DealOne(d, k \div INITIAL_HAND_SIZE) : d \in S}, k + 1, n)

RECURSIVE Deal(_, _, _)
Deal(S, k, n) ==
    IF k = INITIAL_HAND_SIZE * n THEN S
    ELSE Deal(UNION {DealOne(d, k % n) : d \in S}, k + 1, n)

start_game(g) ==
    IF Len(g.players) # g.num_players THEN {g}
    ELSE LET n == Len(g.players)
             g2 == [g EXCEPT !.game_state = "dealing"]
             dealt(d) == [g2 EXCEPT !.deck = d.deck,
                                    !.players = [i \in 1..n |->
                                        [g.players[i] EXCEPT !.hand = d.hands[i],
                                                             !.dealt_from = d.positions[i]]]]
         IN UNION {IF d.ran_out THEN {end_game(dealt(d), NoPlayer, NoTile)}
                   ELSE start_player_turn([dealt(d) EXCEPT !.current_turn = 0,
                                                          !.game_state = "playing"], 0)
                   : d \in Deal({[deck |-> NewDeck(g.include_winds_dragons),
                                  hands |-> [i \in 1..n |-> g.players[i].hand],
                                  positions |-> [i \in 1..n |-> <<>>],
                                  ran_out |-> FALSE]}, 0, n)}

(***************************************************************************)
(* class MahjongServer: the game loop thread and one handle_client thread  *)
(* per connection, around one threading.Lock.  A thread is at a label; a   *)
(* "with self._lock" block that calls nothing that blocks is one step,     *)
(* taken when the lock is free.  Of the engine the server reads and writes *)
(* the phase and the winner fields; the tiles are left out here.           *)
(***************************************************************************)
Receivers == 0..(NumConnections + ExtraConnections - 1)
GameLoopThread == NumConnections + ExtraConnections
Threads == Receivers \cup {GameLoopThread}
Free == -1
NoInput == [type |-> "none", player_id |-> NoPlayer]

NewServer ==
    [lock |-> Free,
     pc |-> [t \in Threads |-> IF t = GameLoopThread THEN "head" ELSE "connect"],
     shutdown_requested |-> FALSE,
     game_instance_exists |-> TRUE,
     game_started_actual |-> FALSE,
     player_counter |-> 0,
     clients |-> {},
     players |-> {},
     pending_client_input |-> NoInput,
     \* history: the input the latest write of _pending_client_input replaced
     \* (the case the receiver logs a warning for)
     overwritten_input |-> NoInput,
     \* of self.game
     num_players |-> MinPlayers,
     game_players |-> {},
     game_state |-> "waiting",
     winning_player_id |-> NoPlayer,
     winning_tile |-> NoTile,
     \* game_over messages handed to the clients' sockets
     game_over_sent |-> 0,
     \* locals: of handle_client, of end_game, of game_loop
     player_id |-> [t \in Threads |-> NoPlayer],
     message_to_send_self |-> [t \in Threads |-> "none"],
     \* history: the answer that went out on the connection of a receiver
     reply_sent |-> [t \in Threads |-> "none"],
     data_type |-> [t \in Threads |-> "none"],
     \* history: the client of a receiver has sent its action_response
     response_sent |-> [t \in Threads |-> FALSE],
     winner_id |-> [t \in Threads |-> NoPlayer],
     winning_tile_arg |-> [t \in Threads |-> NoTile],
     action_to_process |-> NoInput,
     game_started_this_iteration |-> FALSE,
     needs_broadcast |-> FALSE]

(***************************************************************************)
(* The engine driven as MahjongServer.game_loop drives it, one input per   *)
(* iteration and no other thread running in between.                       *)
(***************************************************************************)
VARIABLES game, last_call, prompt_to_send, calls, server, probe

vars == <<game, last_call, prompt_to_send, calls, server, probe>>

\* a direct call of one of Player's win checks: the player it is made on, its
\* arguments and what it returned
NoProbe ==
    [op |-> "none", player |-> NewPlayer(0), tile_to_win |-> NoTile,
     is_zimo |-> FALSE, result |-> FALSE]

Call(op, player_id, action_type, tile) ==
    [op |-> op, player_id |-> player_id, action_type |-> action_type, tile |-> tile]

Cleared(g) ==
    [g EXCEPT !.broadcasts = <<>>, !.response_prompts = <<>>, !.resolved_responses = <<>>]

\* the end of an iteration of game_loop: the prompt the engine left is taken
\* and sent unless a response window is open
LoopTail(g) ==
    /\ IF g.game_state = "playing" /\ g.next_prompt_info # NoPrompt /\ ~g.action_pending
       THEN /\ prompt_to_send' = g.next_prompt_info
            /\ game' = [g EXCEPT !.next_prompt_info = NoPrompt]
       ELSE /\ prompt_to_send' = NoPrompt
            /\ game' = g

\* how many inputs a game of this configuration is given
CallBudget(g) ==
    IF g.num_players > MinPlayers THEN MaxCallsMany
    ELSE IF g.include_winds_dragons THEN MaxCallsHonors
    ELSE MaxCalls

Init ==
    /\ \E include_winds_dragons \in BOOLEAN :
          game = NewGame(MinPlayers, include_winds_dragons)
    /\ last_call = Call("init", NoPlayer, "", NoTile)
    /\ prompt_to_send = NoPrompt
    /\ calls = 0
    /\ server = NewServer
    /\ probe = NoProbe

AddPlayer ==
    /\ game.game_state = "waiting"
    /\ Len(game.players) < game.num_players
    /\ game' = add_player(game, NewPlayer(Len(game.players)))
    /\ last_call' = Call("add_player", Len(game.players), "", NoTile)
    /\ UNCHANGED <<prompt_to_send, calls, server, probe>>

StartGame ==
    /\ game.game_state = "waiting"
    /\ Len(game.players) = game.num_players
    /\ \E g \in start_game(Cleared(game)) : LoopTail(g)
    /\ last_call' = Call("start_game", NoPlayer, "", NoTile)
    /\ UNCHANGED <<calls, server, probe>>

ActionInputs(g) ==
    {[action_type |-> "discard", tile |-> t, gang_type |-> "", tile_info |-> JsonStr(NoTile)]
        : t \in all_game_tiles_list(g)}
    \cup {[action_type |-> a, tile |-> NoTile, gang_type |-> "", tile_info |-> JsonStr(NoTile)]
        : a \in {"hu", "ting", "pong"}}
    \cup {[action_type |-> "gang", tile |-> NoTile, gang_type |-> "an", tile_info |-> JsonStr(t)]
        : t \in all_game_tiles_list(g)}
    \cup {[action_type |-> "gang", tile |-> NoTile, gang_type |-> "bu",
           tile_info |-> JsonList(i, t)]
        : i \in 0..1, t \in all_game_tiles_list(g)}

PlayerAction ==
    /\ game.game_state = "playing"
    /\ calls < CallBudget(game)
    /\ \E player_id \in PlayerIds(game), action_data \in ActionInputs(game) :
          \E g \in handle_player_action(Cleared(game), player_id, action_data) :
             /\ g # Cleared(game)
             /\ LoopTail(g)
             /\ last_call' = Call("action", player_id, action_data.action_type,
                                  IF action_data.action_type = "discard"
                                  THEN action_data.tile ELSE action_data.tile_info.v[Len(action_data.tile_info.v)])
    /\ calls' = calls + 1
    /\ UNCHANGED <<server, probe>>

ActionResponse ==
    /\ game.game_state = "playing"
    /\ calls < CallBudget(game)
    /\ \E player_id \in PlayerIds(game), action_type \in {"hu", "gang", "pong", "pass", "discard"} :
          \E g \in handle_action_response(Cleared(game), player_id, action_type) :
             /\ g # Cleared(game)
             /\ LoopTail(g)
             /\ last_call' = Call("action_response", player_id, action_type, NoTile)
    /\ calls' = calls + 1
    /\ UNCHANGED <<server, probe>>

\* MahjongServer.remove_player ends the game when a client is lost
EndGameCall ==
    /\ game.game_state \in {"playing", "finished"}
    /\ game' = end_game(Cleared(game), NoPlayer, NoTile)
    /\ last_call' = Call("end_game", NoPlayer, "", NoTile)
    /\ prompt_to_send' = NoPrompt
    /\ UNCHANGED <<calls, server, probe>>

Next ==
    \/ AddPlayer
    \/ StartGame
    \/ PlayerAction
    \/ ActionResponse
    \/ EndGameCall

Spec == Init /\ [][Next]_vars

\* the same engine with more than two seats
InitMany ==
    /\ game = NewGame(MaxPlayers, TRUE)
    /\ last_call = Call("init", NoPlayer, "", NoTile)
    /\ prompt_to_send = NoPrompt
    /\ calls = 0
    /\ server = NewServer
    /\ probe = NoProbe

SpecMany == InitMany /\ [][Next]_vars

\* The engine with the inputs it turns down as steps of their own:
\* handle_player_action returns {"success": False, ...} and leaves the game
\* as it was, game_loop drops the value returned and goes on to the end of
\* its iteration.  They are followed among the first MaxRejectCalls inputs.
RejectedAction ==
    /\ game.game_state = "playing"
    /\ calls < MaxRejectCalls
    /\ \E player_id \in PlayerIds(game), action_data \in ActionInputs(game) :
          /\ handle_player_action(Cleared(game), player_id, action_data) = {Cleared(game)}
          /\ last_call' = Call("action_rejected", player_id, action_data.action_type, NoTile)
    /\ LoopTail(Cleared(game))
    /\ UNCHANGED <<calls, server, probe>>

InitRejects ==
    /\ game = NewGame(MinPlayers, TRUE)
    /\ last_call = Call("init", NoPlayer, "", NoTile)
    /\ prompt_to_send = NoPrompt
    /\ calls = 0
    /\ server = NewServer
    /\ probe = NoProbe

NextRejects ==
    \/ Next
    \/ RejectedAction

SpecRejects == InitRejects /\ [][NextRejects]_vars

\* The engine with players who keep to the protocol: the player who was sent
\* an own-turn prompt answers with one of the actions it offers, as the
\* clients build them (a kong with an entry of possible_an_gangs or of
\* possible_bu_gangs), and a player asked about a discard answers with one
\* of the actions offered or passes.  Every answer reaches the engine.
AnswersTo(g, prompt) ==
    LET offered == Elems(prompt.actions)
        hand == get_player_by_id(g, prompt.player_id).hand
    IN {[action_type |-> "discard", tile |-> t, gang_type |-> "", tile_info |-> JsonStr(NoTile)]
           : t \in IF "discard" \in offered THEN Elems(hand) ELSE {}}
       \cup {[action_type |-> "hu", tile |-> NoTile, gang_type |-> "", tile_info |-> JsonStr(NoTile)]
           : x \in IF "hu" \in offered THEN {0} ELSE {}}
       \cup {[action_type |-> "gang", tile |-> NoTile, gang_type |-> "an", tile_info |-> JsonStr(t)]
           : t \in IF "gang" \in offered THEN prompt.possible_an_gangs ELSE {}}
       \cup {[action_type |-> "gang", tile |-> NoTile, gang_type |-> "bu",
              tile_info |-> JsonList(e[1], e[2])]
           : e \in IF "gang" \in offered THEN prompt.possible_bu_gangs ELSE {}}

OwnTurnAnswer ==
    /\ game.game_state = "playing"
    /\ prompt_to_send # NoPrompt
    /\ \E action_data \in AnswersTo(game, prompt_to_send) :
          \E g \in handle_player_action(Cleared(game), prompt_to_send.player_id, action_data) :
             /\ LoopTail(g)
             /\ last_call' = Call("action", prompt_to_send.player_id, action_data.action_type,
                                  IF action_data.action_type = "discard"
                                  THEN action_data.tile
                                  ELSE action_data.tile_info.v[Len(action_data.tile_info.v)])
    /\ UNCHANGED <<calls, server, probe>>

ResponseAnswer ==
    /\ game.game_state = "playing"
    /\ game.action_pending
    /\ \E player_id \in DOMAIN game.action_responses :
          /\ game.action_responses[player_id] = "none"
          /\ \E action_type \in AllowedResponses(get_player_by_id(game, player_id)) :
                \E g \in handle_action_response(Cleared(game), player_id, action_type) :
                   /\ LoopTail(g)
                   /\ last_call' = Call("action_response", player_id, action_type, NoTile)
    /\ UNCHANGED <<calls, server, probe>>

InitConforming ==
    /\ game = NewGame(MinPlayers, FALSE)
    /\ last_call = Call("init", NoPlayer, "", NoTile)
    /\ prompt_to_send = NoPrompt
    /\ calls = 0
    /\ server = NewServer
    /\ probe = NoProbe

NextConforming ==
    \/ AddPlayer
    \/ StartGame
    \/ OwnTurnAnswer
    \/ ResponseAnswer

\* a start is due (the roster is full), or a prompted player or a player
\* asked about a discard has not answered yet: the condition under which
\* StartGame, OwnTurnAnswer or ResponseAnswer can take a step
AnswerDue ==
    \/ /\ game.game_state = "waiting"
       /\ Len(game.players) = game.num_players
    \/ /\ game.game_state = "playing"
       /\ prompt_to_send # NoPrompt
       /\ AnswersTo(game, prompt_to_send) # {}
    \/ /\ game.game_state = "playing"
       /\ game.action_pending
       /\ \E player_id \in DOMAIN game.action_responses :
             game.action_responses[player_id] = "none"

\* the players join and go on answering: weak fairness of AddPlayer, and weak
\* fairness of the other steps with their enabling condition written out
SpecConforming ==
    /\ InitConforming
    /\ [][NextConforming]_vars
    /\ WF_vars(AddPlayer)
    /\ \/ []<>(~AnswerDue)
       \/ []<><<StartGame \/ OwnTurnAnswer \/ ResponseAnswer>>_vars

\* The engine of a game with winds in which only the player at current_turn
\* sends own-turn actions (any of them, a "ting" or a kong included) and the
\* players asked about a discard pass.
TurnAction ==
    /\ game.game_state = "playing"
    /\ calls < MaxTurnCalls
    /\ \E action_data \in ActionInputs(game) :
          LET player_id == game.players[game.current_turn + 1].player_id IN
          \E g \in handle_player_action(Cleared(game), player_id, action_data) :
             /\ g # Cleared(game)
             /\ LoopTail(g)
             /\ last_call' = Call("action", player_id, action_data.action_type,
                                  IF action_data.action_type = "discard"
                                  THEN action_data.tile
                                  ELSE action_data.tile_info.v[Len(action_data.tile_info.v)])
    /\ calls' = calls + 1
    /\ UNCHANGED <<server, probe>>

PassResponse ==
    /\ game.game_state = "playing"
    /\ game.action_pending
    /\ \E player_id \in DOMAIN game.action_responses :
          /\ game.action_responses[player_id] = "none"
          /\ \E g \in handle_action_response(Cleared(game), player_id, "pass") :
                /\ LoopTail(g)
                /\ last_call' = Call("action_response", player_id, "pass", NoTile)
    /\ UNCHANGED <<calls, server, probe>>

InitTurns ==
    /\ game = NewGame(MinPlayers, TRUE)
    /\ last_call = Call("init", NoPlayer, "", NoTile)
    /\ prompt_to_send = NoPrompt
    /\ calls = 0
    /\ server = NewServer
    /\ probe = NoProbe

NextTurns ==
    \/ AddPlayer
    \/ StartGame
    \/ TurnAction
    \/ PassResponse

SpecTurns == InitTurns /\ [][NextTurns]_vars

(***************************************************************************)
(* Properties of the engine.                                               *)
(***************************************************************************)
RECURSIVE SumLen(_)
SumLen(ss) == IF ss = <<>> THEN 0 ELSE Len(Head(ss)) + SumLen(Tail(ss))

HandsOf(g) == [i \in 1..Len(g.players) |-> g.players[i].hand]

MeldsOf(g) == Flatten([i \in 1..Len(g.players) |-> g.players[i].melds])

\* hands + 3 per triplet meld + 4 per kong meld + wall + discard pile
TileSum(g) ==
    SumLen(HandsOf(g))
    + 3 * Cardinality({i \in 1..Len(MeldsOf(g)) : is_triplet(MeldsOf(g)[i])})
    + 4 * Cardinality({i \in 1..Len(MeldsOf(g)) : is_quad(MeldsOf(g)[i])})
    + remaining(g.deck)
    + Len(g.discard_pile)

\* the size of the tile set the deck was built from (108 or 136 in the source)
TotalTiles(g) == TILES_PER_TYPE * Cardinality(all_game_tiles_list(g))

Dealt(g) == g.game_state \in {"playing", "finished"}

\* C2 as stated: from the end of dealing onward the hands, the melds (3 per
\* triplet, 4 per kong), the wall and the discard pile hold exactly the tiles
\* of the set.
C2_TilesConserved ==
    Dealt(game) => TileSum(game) = TotalTiles(game)

\* C2 amended: a pong or an exposed kong leaves the claimed discard in the
\* discard pile, so the sum exceeds the tile set by one for every discard
\* claimed so far; it equals the tile set until the first claim.
C2_TilesConservedUpToClaims ==
    Dealt(game) => TileSum(game) = TotalTiles(game) + game.claimed_discards

\* a pong has been applied and the game goes on
C2_Witness ==
    /\ game.game_state = "playing"
    /\ game.claimed_discards > 0
    /\ \E i \in 1..Len(MeldsOf(game)) : is_triplet(MeldsOf(game)[i])

\* C3: while playing, with no response window open exactly one hand has size
\* 3n+2 and it is the hand of the player at current_turn; with a window open
\* every hand has size 3n+1.
C3_HandSizes ==
    game.game_state = "playing" =>
        LET long == {i \in 1..Len(game.players) : Len(game.players[i].hand) % 3 = 2}
        IN IF game.action_pending
           THEN \A i \in 1..Len(game.players) : Len(game.players[i].hand) % 3 = 1
           ELSE long = {game.current_turn + 1}

\* C7: once the phase is finished, end_game with any winner id and any winning
\* tile returns the game as it is: phase, winner id, winning tile and the
\* count of game_over messages are those of the first call.
C7_EndGameIdempotent ==
    game.game_state = "finished" =>
        \A winner_id \in PlayerIds(game) \cup {NoPlayer},
           winning_tile \in all_game_tiles_list(game) \cup {NoTile, ZIMO} :
            end_game(game, winner_id, winning_tile) = game

\* end_game has been called on a game a player had already won
C7_Witness ==
    /\ last_call.op = "end_game"
    /\ game.game_state = "finished"
    /\ game.winning_player_id # NoPlayer
    /\ game.game_over_sent = 1

\* C8: while a window is open and an eligible player other than the one now
\* replying has no recorded response, the step runs no resolution, leaves the
\* turn where it is and applies no claim; a reply with a type that was not
\* offered is recorded as "pass".
StillAwaited(pid) ==
    /\ game.action_responses[pid] = "none"
    /\ ~(last_call'.op = "action_response" /\ last_call'.player_id = pid)

C8_Step ==
    /\ (/\ game.game_state = "playing"
        /\ game.action_pending
        /\ \E pid \in DOMAIN game.action_responses : StillAwaited(pid))
       => /\ game'.resolved_responses = <<>>
          /\ game'.current_turn = game.current_turn
          /\ game'.claimed_discards = game.claimed_discards
    /\ (/\ last_call'.op = "action_response"
        /\ game'.action_pending
        /\ last_call'.action_type
              \notin AllowedResponses(get_player_by_id(game, last_call'.player_id)))
       => game'.action_responses[last_call'.player_id] = "pass"

C8_ResolvesWhenAllReplied == [][C8_Step]_vars

\* C10: a listening player whose hand has size 3n+1 has a stored wait set
\* that is not empty, is the wait set computed from the hand, and holds only
\* tiles that win with the hand.
C10_ListeningWaits ==
    \A i \in 1..Len(game.players) :
        LET player == game.players[i]
        IN (player.is_listening /\ Len(player.hand) % 3 = 1) =>
              /\ player.listening_tiles # <<>>
              /\ player.listening_tiles = ListeningOf(player, all_game_tiles_list(game))
              /\ \A t \in Elems(player.listening_tiles) : can_hu_tile(player, t, FALSE)

(***************************************************************************)
(* Properties of the response window with more than two seats.             *)
(***************************************************************************)
Responses == {"hu", "gang", "pong", "pass"}

Resolved(kind) ==
    {pid \in DOMAIN game.resolved_responses : game.resolved_responses[pid] = kind}

Applied(type) ==
    {game.broadcasts[i].player_id :
        i \in {j \in 1..Len(game.broadcasts) : game.broadcasts[j].type = type}}

\* the decision resolve_pending_actions would take in this window if the
\* responses recorded were resp
ChoiceFor(resp) == ResolveChoice([game EXCEPT !.action_responses = resp])

\* C1: (a) in an open window, whatever the players after the discarder have
\* answered, the decision is a win for a player who answered "hu" if anyone
\* did, else a kong for a player who answered "gang" if anyone did; (b) when
\* the window has been resolved with a "hu" among the responses the game is
\* finished, won by a player who answered "hu", and no pong or kong has been
\* applied; with a "gang" and no "hu", the kong of that player has been
\* applied and no pong.
C1_Priority ==
    /\ (game.game_state = "playing" /\ game.action_pending) =>
          \A resp \in [PlayerIds(game) \ {game.pending_action_info.discarder_id}
                          -> Responses] :
             LET hu == {pid \in DOMAIN resp : resp[pid] = "hu"}
                 gang == {pid \in DOMAIN resp : resp[pid] = "gang"}
                 choice == ChoiceFor(resp)
             IN /\ hu # {} => (choice.kind = "hu" /\ choice.player \in hu)
                /\ (hu = {} /\ gang # {}) =>
                      /\ choice.kind = "gang"
                      /\ game.players[choice.player + 1].player_id \in gang
    /\ Resolved("hu") # {} =>
          /\ game.game_state = "finished"
          /\ game.winning_player_id \in Resolved("hu")
          /\ Applied("player_ponged") = {}
          /\ Applied("player_ganged") = {}
    /\ (Resolved("hu") = {} /\ Resolved("gang") # {}) =>
          /\ Applied("player_ponged") = {}
          /\ Applied("player_ganged") # {}
          /\ Applied("player_ganged") \subseteq Resolved("gang")

\* a window resolved with a "hu" of one player and a "pong" or a "gang" of
\* another, nearer to the discarder
C1_Witness ==
    /\ Resolved("hu") # {}
    /\ Resolved("pong") \cup Resolved("gang") # {}
    /\ game.game_state = "finished"
    /\ \E pid \in Resolved("pong") \cup Resolved("gang") :
          (pid - game.last_discarder_id) % game.num_players
             < (game.winning_player_id - game.last_discarder_id) % game.num_players

\* C9: when the window has been resolved with one or more "hu" responses, the
\* winner is the player who answered "hu" at the least distance k >= 1 in
\* seats (discarder + k) mod N, and the winning tile is the discarded tile.
C9_NearestHuWins ==
    Resolved("hu") # {} =>
        LET discarder_idx == get_player_index_by_id(game, game.last_discarder_id)
            dist(pid) == (get_player_index_by_id(game, pid) - discarder_idx)
                            % game.num_players
        IN /\ game.winning_player_id \in Resolved("hu")
           /\ \A pid \in Resolved("hu") : dist(game.winning_player_id) <= dist(pid)
           /\ dist(game.winning_player_id) >= 1
           /\ game.winning_tile = game.last_discarded_tile
           /\ game.winning_tile = game.discard_pile[Len(game.discard_pile)]

\* two players have answered "hu" to the same discard
C9_Witness ==
    /\ Cardinality(Resolved("hu")) >= 2
    /\ game.game_state = "finished"
    /\ game.winning_player_id \in Resolved("hu")

(***************************************************************************)
(* Properties of listening ("ting").                                       *)
(***************************************************************************)
AcceptedDiscardBy(pid) ==
    /\ last_call'.op = "action"
    /\ last_call'.action_type = "discard"
    /\ last_call'.player_id = pid
    /\ calls' = calls + 1

\* C11: when the discard that follows a player's "ting" leaves that player a
\* hand that waits for no tile, the declaration fails: the discard is taken
\* and the player is not listening afterwards.
C11_Step ==
    \A i \in 1..Len(game.players) :
        LET pid == game.players[i].player_id IN
        (/\ last_call.op = "action"
         /\ last_call.action_type = "ting"
         /\ last_call.player_id = pid
         /\ game.players[i].is_listening
         /\ AcceptedDiscardBy(pid)
         /\ ListeningOf(game'.players[i], all_game_tiles_list(game')) = <<>>)
        => ~game'.players[i].is_listening

C11_TingFailsOnOtherDiscard == [][C11_Step]_vars

\* C12: a discard taken from a listening player who was prompted this turn
\* with the tile drawn for them removes that drawn tile from the hand,
\* whatever tile the input named.
C12_Step ==
    \A i \in 1..Len(game.players) :
        LET pid == game.players[i].player_id IN
        (/\ game.players[i].is_listening
         /\ prompt_to_send.player_id = pid
         /\ prompt_to_send.drawn_tile # NoTile
         /\ AcceptedDiscardBy(pid))
        => /\ last_call'.tile = prompt_to_send.drawn_tile
           /\ game'.players[i].hand
                 = remove_tile(game.players[i], prompt_to_send.drawn_tile).hand

C12_ListeningDiscardsDrawnTile == [][C12_Step]_vars

C15_Deal ==
    LET N == game.num_players IN
    /\ Dealt(game) =>
          \A k \in 0..(N - 1) :
              game.players[k + 1].dealt_from
                  = [j \in 1..INITIAL_HAND_SIZE |-> (j - 1) * N + k]
    /\ (last_call.op = "start_game" /\ game.game_state = "playing") =>
          /\ game.deck.front_pops = INITIAL_HAND_SIZE * N + 1
          /\ game.deck.back_pops = 0
          /\ remaining(game.deck) = TotalTiles(game) - INITIAL_HAND_SIZE * N - 1
          /\ game.current_turn = 0
          /\ prompt_to_send.player_id = game.players[1].player_id
          /\ Len(game.players[1].hand) = INITIAL_HAND_SIZE + 1
          /\ \A k \in 1..(N - 1) : Len(game.players[k + 1].hand) = INITIAL_HAND_SIZE
          /\ \A k \in 0..(N - 1) : game.players[k + 1].melds = <<>>

\* the hands have just been dealt and the player at seat 0 has drawn
C15_Witness ==
    /\ last_call.op = "start_game"
    /\ game.game_state = "playing"
    /\ Len(game.players[1].hand) = INITIAL_HAND_SIZE + 1
    /\ prompt_to_send.drawn_tile \in Elems(game.players[1].hand)

(***************************************************************************)
(* Properties of the wall.                                                 *)
(***************************************************************************)
BroadcastTypes(g) == {g.broadcasts[i].type : i \in 1..Len(g.broadcasts)}

\* the step asks the wall for a tile: the turn moves on to the next player
\* (a pong moves it without a draw) or a kong calls for its replacement
DrawAsked ==
    /\ last_call'.op \in {"action", "action_response"}
    /\ \/ "player_ganged" \in BroadcastTypes(game')
       \/ /\ game'.current_turn # game.current_turn
          /\ "player_ponged" \notin BroadcastTypes(game')

\* C19: once dealt, the wall never grows and a hand grows only by a tile
\* taken from the wall; a step that asks an empty wall for a tile, from the
\* front at the start of a turn or from the back after a kong, ends the game
\* with no winner and adds no tile to any hand.
C19_Step ==
    Dealt(game) =>
        /\ remaining(game'.deck) <= remaining(game.deck)
        /\ SumLen(HandsOf(game')) > SumLen(HandsOf(game))
              => remaining(game'.deck) < remaining(game.deck)
        /\ (game.game_state = "playing" /\ remaining(game.deck) = 0 /\ DrawAsked)
              => /\ game'.game_state = "finished"
                 /\ game'.winning_player_id = NoPlayer
                 /\ game'.winning_tile = NoTile
                 /\ "game_over" \in BroadcastTypes(game')
                 /\ \A i \in 1..Len(game.players) :
                       Len(game'.players[i].hand) <= Len(game.players[i].hand)

C19_EmptyWallEndsGame == [][C19_Step]_vars

\* a discard has moved the turn on with the wall empty and the game has
\* ended in a draw
C19_Witness ==
    /\ last_call.op = "action"
    /\ last_call.action_type = "discard"
    /\ game.game_state = "finished"
    /\ game.winning_player_id = NoPlayer
    /\ remaining(game.deck) = 0
    /\ game.current_turn # get_player_index_by_id(game, last_call.player_id)

(***************************************************************************)
(* Properties of inputs the engine turns down.                             *)
(***************************************************************************)
\* the players the engine or the game loop sent a message of their own to
\* during the last iteration
SentTo ==
    (DOMAIN game.response_prompts)
    \cup (IF prompt_to_send = NoPrompt THEN {} ELSE {prompt_to_send.player_id})

\* C17: when the engine has turned down an own-turn action, the sender is
\* sent an error message and is sent its action prompt again.
C17_RejectionAnswered ==
    last_call.op = "action_rejected" =>
        /\ last_call.player_id \in SentTo
        /\ prompt_to_send.player_id = last_call.player_id

(***************************************************************************)
(* Own-turn actions and the response window.                               *)
(***************************************************************************)
OwnTurnCall ==
    /\ last_call'.op = "action"
    /\ calls' = calls + 1

\* C23: an own-turn action ("discard", "gang", "ting", "hu") handled while a
\* response window is open changes no hand, meld, discard pile, the wall, the
\* turn index or a recorded response, and a discard is only ever taken from a
\* hand of size 3n+2.
C23_Step ==
    /\ (/\ game.game_state = "playing"
        /\ game.action_pending
        /\ OwnTurnCall)
       => /\ \A i \in 1..Len(game.players) :
                /\ game'.players[i].hand = game.players[i].hand
                /\ game'.players[i].melds = game.players[i].melds
                /\ game'.players[i].discarded = game.players[i].discarded
          /\ game'.deck = game.deck
          /\ game'.current_turn = game.current_turn
          /\ game'.action_responses = game.action_responses
    /\ \A i \in 1..Len(game.players) :
          AcceptedDiscardBy(game.players[i].player_id)
             => Len(game.players[i].hand) % 3 = 2

C23_WindowBlocksOwnTurn == [][C23_Step]_vars

\* what a rejected own-turn action has to leave alone
Frame(g) ==
    [hands |-> [i \in 1..Len(g.players) |-> g.players[i].hand],
     melds |-> [i \in 1..Len(g.players) |-> g.players[i].melds],
     discarded |-> [i \in 1..Len(g.players) |-> g.players[i].discarded],
     is_listening |-> [i \in 1..Len(g.players) |-> g.players[i].is_listening],
     discard_pile |-> g.discard_pile,
     deck |-> g.deck,
     current_turn |-> g.current_turn,
     game_state |-> g.game_state]

\* no discard leaves the hand of p waiting for a tile
CannotListen(g, p) ==
    \A t \in Elems(p.hand), w \in all_game_tiles_list(g) :
        ~can_hu_tile(remove_tile(p, t), w, FALSE)

\* the kong named by tile_info is one the player can declare: a concealed
\* kong of four tiles of the hand, an added kong of a tile of the hand on a
\* pong of it
KongCandidate(p, action_data) ==
    LET v == action_data.tile_info.v IN
    \/ /\ action_data.gang_type = "an"
       /\ Len(v) = 1
       /\ Count(p.hand, v[1]) = 4
    \/ /\ action_data.gang_type = "bu"
       /\ Len(v) = 2
       /\ v[1] + 1 \in 1..Len(p.melds)
       /\ p.melds[v[1] + 1] = Repeat(v[2], 3)
       /\ v[2] \in Elems(p.hand)

\* the cases in which an own-turn action is to be rejected
ToBeRejected(g, player_id, action_data) ==
    LET cur == g.players[g.current_turn + 1] IN
    \/ cur.player_id # player_id
    \/ action_data.action_type = "discard" /\ action_data.tile \notin Elems(cur.hand)
    \/ action_data.action_type = "gang" /\ ~KongCandidate(cur, action_data)
    \/ action_data.action_type = "hu" /\ ~can_hu_tile(cur, NoTile, TRUE)
    \/ action_data.action_type = "ting" /\ CannotListen(g, cur)

\* C25: an own-turn action that is rejected (sent by a player who is not at
\* current_turn, a discard of a tile that is not in the hand, a kong that is
\* not a candidate, a "hu" on a hand that does not win, a "ting" on a hand
\* that cannot listen) leaves every hand, meld list and discard pile, the
\* wall, the turn index, the phase and every listening flag as they were.
C25_RejectedKeepsState ==
    game.game_state = "playing" =>
        \A player_id \in PlayerIds(game), action_data \in ActionInputs(game) :
            ToBeRejected(game, player_id, action_data) =>
                \A g \in handle_player_action(Cleared(game), player_id, action_data) :
                    Frame(g) = Frame(game)

\* a "hu" of the player at turn, whose hand does not win, has been rejected
C25_Witness ==
    /\ last_call.op = "action_rejected"
    /\ last_call.action_type = "hu"
    /\ game.game_state = "playing"
    /\ LET cur == game.players[game.current_turn + 1]
       IN /\ last_call.player_id = cur.player_id
          /\ ~can_hu_tile(cur, NoTile, TRUE)

(***************************************************************************)
(* Player's win checks called directly, on hands of every shape up to      *)
(* ProbeMaxLen tiles over the suited points 1..ProbeMaxPoint of "wan" and  *)
(* the first ProbeNumWinds winds.                                          *)
(***************************************************************************)
ProbeTiles == (1..ProbeMaxPoint) \cup {30 + w : w \in 0..(ProbeNumWinds - 1)}

\* the sorted hand with c[t] copies of every tile t
HandOf(c) ==
    LET kinds == SortedList(ProbeTiles)
    IN Flatten([i \in 1..Len(kinds) |-> Repeat(kinds[i], c[kinds[i]])])

ProbeHands ==
    {HandOf(c) : c \in {d \in [ProbeTiles -> 0..TILES_PER_TYPE] :
                           SumOver(d, ProbeTiles) <= ProbeMaxLen}}

\* a self-drawn check, a check of a discarded tile, and a self-drawn check
\* by a player who has ponged
ProbeCalls ==
    {[melds |-> <<>>, tile_to_win |-> NoTile, is_zimo |-> TRUE],
     [melds |-> <<>>, tile_to_win |-> 1, is_zimo |-> FALSE],
     [melds |-> <<Repeat(ProbeMaxPoint, 3)>>, tile_to_win |-> NoTile, is_zimo |-> TRUE]}

InitProbe ==
    /\ game = NewGame(MinPlayers, TRUE)
    /\ last_call = Call("init", NoPlayer, "", NoTile)
    /\ prompt_to_send = NoPrompt
    /\ calls = 0
    /\ server = NewServer
    /\ \E hand \in ProbeHands, c \in ProbeCalls :
          probe = [NoProbe EXCEPT !.player.hand = hand, !.player.melds = c.melds,
                                  !.tile_to_win = c.tile_to_win, !.is_zimo = c.is_zimo]

CheckStandardWin ==
    /\ probe.op = "none"
    /\ probe' = [probe EXCEPT !.op = "check_standard_win",
                              !.result = check_standard_win(probe.player.hand)]
    /\ UNCHANGED <<game, last_call, prompt_to_send, calls, server>>

CanHuTile ==
    /\ probe.op = "none"
    /\ probe' = [probe EXCEPT !.op = "can_hu_tile",
                              !.result = can_hu_tile(probe.player, probe.tile_to_win,
                                                     probe.is_zimo)]
    /\ UNCHANGED <<game, last_call, prompt_to_send, calls, server>>

NextProbe ==
    \/ CheckStandardWin
    \/ CanHuTile

SpecProbe == InitProbe /\ [][NextProbe]_vars

\* s without its first n copies of x
RECURSIVE Without(_, _, _)
Without(s, x, n) == IF n = 0 THEN s ELSE Without(ListRemove(s, x), x, n - 1)

\* t, t+1, t+2 are three consecutive values of one numbered suit
IsRunStart(t) ==
    /\ t \div 10 \in {0, 1, 2}
    /\ t % 10 >= 1
    /\ (t % 10) + 2 <= 9

\* the tiles split into melds, whichever tile each meld is taken from
RECURSIVE MeldPartition(_)
MeldPartition(tiles) ==
    \/ tiles = <<>>
    \/ \E t \in Elems(tiles) :
          \/ /\ Count(tiles, t) >= 3
             /\ MeldPartition(Without(tiles, t, 3))
          \/ /\ IsRunStart(t)
             /\ t + 1 \in Elems(tiles)
             /\ t + 2 \in Elems(tiles)
             /\ MeldPartition(ListRemove(ListRemove(ListRemove(tiles, t), t + 1), t + 2))

StandardForm(tiles) ==
    /\ Len(tiles) % 3 = 2
    /\ \E pair_tile \in Elems(tiles) :
          /\ Count(tiles, pair_tile) >= 2
          /\ MeldPartition(Without(tiles, pair_tile, 2))

\* C21: with no joker configured, check_standard_win returns true for a list
\* of tiles exactly when its size is 3n+2 and it splits into one pair and n
\* melds, a meld being three identical tiles or three consecutive values of
\* one numbered suit; winds are never taken as a sequence.
C21_StandardWin ==
    probe.op = "check_standard_win" =>
        (probe.result <=> StandardForm(probe.player.hand))

\* a winning hand of a sequence, a triplet of winds and a pair
C21_Witness ==
    /\ probe.op = "check_standard_win"
    /\ probe.result
    /\ probe.player.hand = <<1, 2, 3, 4, 4, 30, 30, 30>>

\* the tiles a probed can_hu_tile looks at
TilesChecked ==
    probe.player.hand \o Flatten(probe.player.melds)
        \o (IF ~probe.is_zimo /\ probe.tile_to_win # NoTile
            THEN <<probe.tile_to_win>> ELSE <<>>)

AllInPairs(tiles) == \A t \in Elems(tiles) : Count(tiles, t) \in {2, 4}

\* C22: can_hu_tile accepts tiles that are not of the standard form exactly
\* when the player has no melds, the tiles checked are 14 and every kind
\* occurs 2 or 4 times; 14 tiles with a kind occurring 1 or 3 times and no
\* standard decomposition are rejected.
C22_SevenPairs ==
    probe.op = "can_hu_tile" =>
        /\ ~StandardForm(TilesChecked) =>
              (probe.result <=> /\ probe.player.melds = <<>>
                                /\ Len(TilesChecked) = 14
                                /\ AllInPairs(TilesChecked))
        /\ /\ Len(TilesChecked) = 14
           /\ \E t \in Elems(TilesChecked) : Count(TilesChecked, t) \in {1, 3}
           /\ ~StandardForm(TilesChecked)
           => ~probe.result

\* a discard completing seven pairs, two of them four of a kind
C22_Witness ==
    /\ probe.op = "can_hu_tile"
    /\ probe.result
    /\ ~probe.is_zimo
    /\ ~StandardForm(TilesChecked)
    /\ \E t \in Elems(TilesChecked) : Count(TilesChecked, t) = 4

(***************************************************************************)
(* Winning with a kong.                                                    *)
(***************************************************************************)
HoldsKong(p) == \E i \in 1..Len(p.melds) : is_quad(p.melds[i])

\* C26: for a player who holds kong melds can_hu_tile returns true whenever
\* the concealed hand, with the candidate tile on a discard, has size 3n+2
\* and is one pair and n triplets or sequences; "hu" is offered on the draw
\* of a replacement tile that completes the hand.
C26_KongHolderCanWin ==
    game.game_state = "playing" =>
        /\ \A i \in 1..Len(game.players) :
              LET p == game.players[i] IN
              HoldsKong(p) =>
                 /\ StandardForm(p.hand) => can_hu_tile(p, NoTile, TRUE)
                 /\ \A tile_to_win \in all_game_tiles_list(game) :
                       StandardForm(Append(p.hand, tile_to_win))
                          => can_hu_tile(p, tile_to_win, FALSE)
        /\ (/\ prompt_to_send # NoPrompt
            /\ prompt_to_send.is_gang_replacement
            /\ StandardForm(get_player_by_id(game, prompt_to_send.player_id).hand))
           => "hu" \in Elems(prompt_to_send.actions)

(***************************************************************************)
(* Own-turn kongs.                                                         *)
(***************************************************************************)
KongAccepted ==
    /\ OwnTurnCall
    /\ last_call'.action_type = "gang"

\* C27: after an accepted own-turn kong, with a tile left in the wall, no
\* response window is opened and the turn stays with the player: one tile is
\* taken from the back of the wall and none from the front, it is added to
\* the hand of that player, and the prompt sent next goes to that player
\* with is_gang_replacement set.
C27_Step ==
    (/\ game.game_state = "playing"
     /\ KongAccepted
     /\ remaining(game.deck) > 0)
    => LET i == get_player_index_by_id(game, last_call'.player_id) + 1
       IN /\ ~game.action_pending => ~game'.action_pending
          /\ game.current_turn = i - 1
          /\ game'.current_turn = game.current_turn
          /\ game'.deck.back_pops = game.deck.back_pops + 1
          /\ game'.deck.front_pops = game.deck.front_pops
          /\ remaining(game'.deck) = remaining(game.deck) - 1
          /\ prompt_to_send'.player_id = last_call'.player_id
          /\ prompt_to_send'.is_gang_replacement
          /\ prompt_to_send'.drawn_tile \in Elems(game'.players[i].hand)
          /\ game'.deck.tiles[prompt_to_send'.drawn_tile]
                = game.deck.tiles[prompt_to_send'.drawn_tile] - 1
          /\ Len(game'.players[i].hand) + SumLen(game'.players[i].melds)
                = Len(game.players[i].hand) + SumLen(game.players[i].melds) + 1

C27_KongDrawsReplacement == [][C27_Step]_vars

(***************************************************************************)
(* Pongs.                                                                  *)
(***************************************************************************)
\* the step resolves the open window, and to the pong of player j: nobody has
\* answered "hu" or "gang" and j has answered "pong"
ResolvesToPong(j) ==
    /\ last_call'.op = "action_response"
    /\ game.game_state = "playing"
    /\ game.action_pending
    /\ j \in DOMAIN game'.resolved_responses
    /\ game'.resolved_responses[j] = "pong"
    /\ \A pid \in DOMAIN game'.resolved_responses :
          game'.resolved_responses[pid] \in {"pong", "pass"}

\* C28: when a window resolves to a pong by player j, the hand of j loses
\* exactly two copies of the discarded tile, a meld of three of that tile is
\* added to the melds of j, current_turn becomes the seat of j, no tile is
\* drawn from the wall, the window is closed, and the prompt sent next goes
\* to j and offers "discard" only.
C28_Step ==
    \A j \in PlayerIds(game) :
        ResolvesToPong(j) =>
            LET i == get_player_index_by_id(game, j) + 1
                tile == game.pending_action_info.discarded_tile
                before == game.players[i]
                after == game'.players[i]
            IN /\ tile = game.last_discarded_tile
               /\ Len(after.hand) = Len(before.hand) - 2
               /\ \A t \in all_game_tiles_list(game) :
                     Count(after.hand, t)
                        = Count(before.hand, t) - (IF t = tile THEN 2 ELSE 0)
               /\ Len(after.melds) = Len(before.melds) + 1
               /\ \A m \in Elems(after.melds) \cup Elems(before.melds) :
                     Count(after.melds, m)
                        = Count(before.melds, m) + (IF m = Repeat(tile, 3) THEN 1 ELSE 0)
               /\ \A k \in 1..Len(game.players) :
                     k # i => /\ game'.players[k].hand = game.players[k].hand
                              /\ game'.players[k].melds = game.players[k].melds
               /\ game'.current_turn = i - 1
               /\ game'.deck = game.deck
               /\ ~game'.action_pending
               /\ game'.game_state = "playing"
               /\ prompt_to_send'.player_id = j
               /\ prompt_to_send'.actions = <<"discard">>

C28_PongApplied == [][C28_Step]_vars

\* a pong has been applied for the player two seats after the discarder
C28_Witness ==
    /\ last_call.op = "action_response"
    /\ Resolved("pong") # {}
    /\ Resolved("hu") \cup Resolved("gang") = {}
    /\ game.game_state = "playing"
    /\ ~game.action_pending
    /\ game.players[game.current_turn + 1].player_id \in Resolved("pong")
    /\ (game.current_turn - get_player_index_by_id(game, game.last_discarder_id))
          % game.num_players = 2
    /\ prompt_to_send.actions = <<"discard">>

\* C29: the only own-turn action the engine accepts from a player in reply
\* to the discard-only prompt that follows that player's pong is a discard; a
\* "hu", "gang" or "ting" is rejected and changes no state.
C29_Step ==
    (/\ prompt_to_send.from_pong_gang
     /\ prompt_to_send.actions = <<"discard">>
     /\ "player_ponged" \in BroadcastTypes(game)
     /\ OwnTurnCall
     /\ last_call'.player_id = prompt_to_send.player_id)
    => last_call'.action_type = "discard"

C29_DiscardOnlyAfterPong == [][C29_Step]_vars

(***************************************************************************)
(* The turn moving on.                                                     *)
(***************************************************************************)
\* the step takes a discard nobody can claim, or records the answer that
\* closes a window in which every answer is "pass"
ClaimedByNobody ==
    /\ game.game_state = "playing"
    /\ ~game'.action_pending
    /\ \/ \E pid \in PlayerIds(game) : AcceptedDiscardBy(pid)
       \/ /\ last_call'.op = "action_response"
          /\ game.action_pending
          /\ game'.resolved_responses # <<>>
          /\ \A pid \in DOMAIN game'.resolved_responses :
                game'.resolved_responses[pid] = "pass"

\* C30: when the discard of the player at seat i is claimed by nobody (nobody
\* can claim it, or everybody who can passes) the turn index becomes
\* (i+1) mod N; with the wall empty the game ends in a draw without a winner,
\* otherwise the player at that seat draws one tile from the front of the
\* wall and is prompted.
C30_Step ==
    ClaimedByNobody =>
        LET i == get_player_index_by_id(game, game'.last_discarder_id)
            next == (i + 1) % game.num_players
        IN /\ game'.current_turn = next
           /\ IF remaining(game.deck) = 0
              THEN /\ game'.game_state = "finished"
                   /\ game'.winning_player_id = NoPlayer
                   /\ game'.winning_tile = NoTile
                   /\ game'.deck = game.deck
                   /\ prompt_to_send' = NoPrompt
              ELSE /\ game'.game_state = "playing"
                   /\ game'.deck.front_pops = game.deck.front_pops + 1
                   /\ game'.deck.back_pops = game.deck.back_pops
                   /\ remaining(game'.deck) = remaining(game.deck) - 1
                   /\ Len(game'.players[next + 1].hand)
                         = Len(game.players[next + 1].hand) + 1
                   /\ prompt_to_send'.player_id = game.players[next + 1].player_id
                   /\ "discard" \in Elems(prompt_to_send'.actions)
                   /\ ~prompt_to_send'.is_gang_replacement
                   /\ prompt_to_send'.drawn_tile \in Elems(game'.players[next + 1].hand)
                   /\ game'.deck.tiles[prompt_to_send'.drawn_tile]
                         = game.deck.tiles[prompt_to_send'.drawn_tile] - 1

C30_TurnAdvances == [][C30_Step]_vars

\* everybody who could claim the discard has passed and the next player has
\* drawn and been prompted
C30_Witness ==
    /\ last_call.op = "action_response"
    /\ game.resolved_responses # <<>>
    /\ Resolved("pass") = DOMAIN game.resolved_responses
    /\ game.game_state = "playing"
    /\ game.current_turn
          = (get_player_index_by_id(game, game.last_discarder_id) + 1) % game.num_players
    /\ prompt_to_send.player_id = game.players[game.current_turn + 1].player_id
    /\ prompt_to_send.drawn_tile # NoTile

(***************************************************************************)
(* The end of a game.                                                      *)
(***************************************************************************)
\* C31: with players who answer every prompt with an action it offers, and
\* every answer reaching the engine, a game in phase "playing" comes to
\* phase "finished".
C31_GameTerminates ==
    (game.game_state = "playing") ~> (game.game_state = "finished")

(***************************************************************************)
(* Who is asked about a discard.                                           *)
(***************************************************************************)
\* the tiles are one pair and melds, or seven pairs of a hand without melds
WinningTiles(tiles, melds) ==
    \/ StandardForm(tiles)
    \/ /\ melds = <<>>
       /\ Len(tiles) = 14
       /\ AllInPairs(tiles)

\* what the claim has player p offered on a discard of t
OfferedOn(p, t) ==
    {a \in {"hu", "gang", "pong"} :
        \/ a = "hu" /\ WinningTiles(Append(p.hand \o Flatten(p.melds), t), p.melds)
        \/ a = "gang" /\ ~p.is_listening /\ Count(p.hand, t) = 3
        \/ a = "pong" /\ ~p.is_listening /\ Count(p.hand, t) >= 2}

\* C32: when the engine accepts the discard of tile t by player i, each other
\* player j is asked with "hu" iff j's hand and melds with t are a winning
\* hand, with "gang" iff j is not listening and holds exactly 3 copies of t,
\* with "pong" iff j is not listening and holds at least 2 copies of t; the
\* window is opened iff somebody is offered something, and the players
\* recorded as awaited are exactly the players offered something.
C32_Step ==
    \A i \in 1..Len(game.players) :
        AcceptedDiscardBy(game.players[i].player_id) =>
            LET t == last_call'.tile
                others == (1..Len(game.players)) \ {i}
                offered == {j \in others : OfferedOn(game.players[j], t) # {}}
                ids == {game.players[j].player_id : j \in offered}
            IN /\ DOMAIN game'.response_prompts = ids
               /\ \A j \in offered :
                     Elems(game'.response_prompts[game.players[j].player_id])
                        = OfferedOn(game.players[j], t)
               /\ game'.action_pending <=> (offered # {})
               /\ game'.action_pending => DOMAIN game'.action_responses = ids
               /\ prompt_to_send' # NoPrompt => ~game'.action_pending

C32_ResponseEligibility == [][C32_Step]_vars

\* a window is open in which a player is asked with "hu" and "pong" and
\* nobody else is asked
C32_Witness ==
    /\ last_call.op = "action"
    /\ last_call.action_type = "discard"
    /\ game.action_pending
    /\ \E pid \in DOMAIN game.response_prompts :
          /\ game.response_prompts[pid] = <<"hu", "pong">>
          /\ DOMAIN game.action_responses = {pid}

(***************************************************************************)
(* Kongs offered on the own turn.                                          *)
(***************************************************************************)
\* the prompt sent is the one of a turn that began with a draw from the wall
PromptAfterDraw ==
    /\ game.game_state = "playing"
    /\ prompt_to_send # NoPrompt
    /\ prompt_to_send.drawn_tile # NoTile
    /\ ~prompt_to_send.is_gang_replacement
    /\ ~prompt_to_send.from_pong_gang

Prompted == get_player_by_id(game, prompt_to_send.player_id)

\* the concealed and added kongs open to p, as the own-turn inputs naming them
KongsOpenTo(p) ==
    {action_data \in ActionInputs(game) :
        action_data.action_type = "gang" /\ KongCandidate(p, action_data)}

\* the tiles that complete a concealed hand of size 3n+1, melds set aside
WaitsOf(g, hand) ==
    {w \in all_game_tiles_list(g) : StandardForm(Append(hand, w))}

\* the concealed hand the kong leaves before the replacement tile is drawn
HandAfterKong(p, action_data) ==
    LET v == action_data.tile_info.v IN
    IF action_data.gang_type = "an" THEN Without(p.hand, v[1], 4)
    ELSE ListRemove(p.hand, v[2])

\* the kong leaves the player waiting for the tiles waited for before the draw
KeepsWaits(p, drawn_tile, action_data) ==
    /\ WaitsOf(game, ListRemove(p.hand, drawn_tile)) # {}
    /\ WaitsOf(game, HandAfterKong(p, action_data))
          = WaitsOf(game, ListRemove(p.hand, drawn_tile))

KongApplied(g) == "player_ganged" \in BroadcastTypes(g)

CanDeclare(g, p) ==
    \E t \in Elems(p.hand) : WaitsOf(g, ListRemove(p.hand, t)) # {}

TingAction ==
    [action_type |-> "ting", tile |-> NoTile, gang_type |-> "", tile_info |-> JsonStr(NoTile)]

HuAction ==
    [action_type |-> "hu", tile |-> NoTile, gang_type |-> "", tile_info |-> JsonStr(NoTile)]

\* C35: in a game being played, a "hu" of the player at current_turn is
\* accepted iff the hand of that player with the tiles of that player's
\* melds is a winning hand; the game is then finished, the winner is that
\* player and the winning tile is the self-draw marker, with every hand and
\* meld as it was; otherwise nothing changes.
C35_SelfDrawWin ==
    game.game_state = "playing" =>
        LET p == game.players[game.current_turn + 1]
            wins == WinningTiles(p.hand \o Flatten(p.melds), p.melds)
        IN \A g \in handle_player_action(Cleared(game), p.player_id, HuAction) :
              IF wins
              THEN /\ g.game_state = "finished"
                   /\ g.winning_player_id = p.player_id
                   /\ g.winning_tile = ZIMO
                   /\ HandsOf(g) = HandsOf(game)
                   /\ MeldsOf(g) = MeldsOf(game)
                   /\ g.deck = game.deck
              ELSE /\ Frame(g) = Frame(game)
                   /\ g.winning_player_id = game.winning_player_id
                   /\ g.winning_tile = game.winning_tile
                   /\ g.action_pending = game.action_pending
                   /\ g.broadcasts = <<>>

\* the "hu" of the player at turn has been accepted: the game is finished
\* with that player as the winner by self-draw
C35_Witness ==
    /\ last_call.op = "action"
    /\ last_call.action_type = "hu"
    /\ game.game_state = "finished"
    /\ game.winning_player_id = last_call.player_id
    /\ game.winning_player_id = game.players[game.current_turn + 1].player_id
    /\ game.winning_tile = ZIMO

(***************************************************************************)
(* Starting a game.                                                        *)
(***************************************************************************)
\* C36: start_game called in a phase other than "waiting" (a second time
\* while the game is played, or after it has finished) or with fewer players
\* than the game is for fails: the wall, every hand, the turn index and the
\* phase are left as they were.
C36_StartOnlyFromWaiting ==
    (game.game_state # "waiting" \/ Len(game.players) # game.num_players) =>
        \A g \in start_game(Cleared(game)) :
            /\ g.deck = game.deck
            /\ HandsOf(g) = HandsOf(game)
            /\ g.current_turn = game.current_turn
            /\ g.game_state = game.game_state

(***************************************************************************)
(* Melds.                                                                  *)
(***************************************************************************)
\* how many melds of ms are n copies of t
MeldsLike(ms, t, n) == Cardinality({k \in 1..Len(ms) : ms[k] = Repeat(t, n)})

\* new holds every meld of old, but for triplets grown into kongs
MeldsGrow(g, old, new) ==
    /\ Len(new) >= Len(old)
    /\ \A k \in 1..Len(new) :
          \E t \in all_game_tiles_list(g) : new[k] \in {Repeat(t, 3), Repeat(t, 4)}
    /\ \A t \in all_game_tiles_list(g) :
          /\ MeldsLike(new, t, 4) >= MeldsLike(old, t, 4)
          /\ MeldsLike(new, t, 3) + MeldsLike(new, t, 4)
                >= MeldsLike(old, t, 3) + MeldsLike(old, t, 4)

\* the kongs a player may be asked to perform
GangInputs(g, p) ==
    {<<"an", t>> : t \in all_game_tiles_list(g)}
    \cup {<<"ming", t>> : t \in all_game_tiles_list(g)}
    \cup {<<"bu", <<i, t>>>> : i \in 0..Len(p.melds), t \in all_game_tiles_list(g)}

\* C37: a player's melds only accumulate: over every step of the game, and
\* over perform_pong and perform_gang applied to any player with any input,
\* the number of melds does not decrease, every meld is 3 or 4 copies of one
\* tile, and a meld that was there stays as it is or, a triplet, has grown
\* into four of the same tile.
C37_Step ==
    \A i \in 1..Len(game.players) :
        LET p == game.players[i] IN
        /\ MeldsGrow(game, p.melds, game'.players[i].melds)
        /\ \A new \in {perform_pong(p, t)[2].melds : t \in all_game_tiles_list(game)}
                      \cup {perform_gang(p, in[1], in[2])[2].melds : in \in GangInputs(game, p)} :
              MeldsGrow(game, p.melds, new)

C37_MeldsAccumulate == [][C37_Step]_vars

\* a player holds a triplet and the fourth tile of it, so that the added
\* kong can be performed, and it grows that triplet into a kong
C37_Witness ==
    \E i \in 1..Len(game.players) :
        LET p == game.players[i] IN
        \E c \in possible_bu_gangs(p) :
            /\ perform_gang(p, "bu", c)[1]
            /\ perform_gang(p, "bu", c)[2].melds # p.melds
            /\ MeldsLike(perform_gang(p, "bu", c)[2].melds, c[2], 4) = 1

(***************************************************************************)
(* Claims of one discard by several players.                               *)
(***************************************************************************)
\* the seats whose hand holds n copies of t or more
Holding(t, n) == {i \in 1..Len(game.players) : Count(game.players[i].hand, t) >= n}

\* C39: of a tile kind a copy of which lies in the discard pile no two
\* players hold two copies or more in hand, and in an open response window
\* at most one player can claim the discard by "pong" or by "gang".
C39_OneClaimant ==
    /\ \A t \in all_game_tiles_list(game) :
          t \in Elems(game.discard_pile) => Cardinality(Holding(t, 2)) <= 1
    /\ game.action_pending =>
          Cardinality({i \in 1..Len(game.players) :
                          game.players[i].can_pong \/ game.players[i].can_gang}) <= 1

\* in a game of three a window is open for a player who can claim the
\* discard by "pong", and the third player holds a copy of that tile too
C39_Witness ==
    /\ Len(game.players) = 3
    /\ game.game_state = "playing"
    /\ game.action_pending
    /\ \E i, j \in 1..Len(game.players) :
          /\ i # j
          /\ game.players[i].can_pong
          /\ game.players[i].player_id \in DOMAIN game.action_responses
          /\ game.players[i].player_id # game.last_discarder_id
          /\ game.players[j].player_id # game.last_discarder_id
          /\ Count(game.players[j].hand, game.last_discarded_tile) = 1

(***************************************************************************)
(* What a player is shown of the game.                                     *)
(***************************************************************************)
\* the games that differ from g in one tile of the hand of the player at
\* seat j, or in the wait set of that player by its last tile or by one tile
\* more
OneChangeAt(g, j) ==
    {[g EXCEPT !.players[j].hand[k] = t] :
        k \in 1..Len(g.players[j].hand), t \in all_game_tiles_list(g)}
    \cup {[g EXCEPT !.players[j].listening_tiles = Append(@, t)] :
        t \in all_game_tiles_list(g)}
    \cup {[g EXCEPT !.players[j].listening_tiles = SubSeq(@, 1, Len(@) - 1)] :
        x \in IF g.players[j].listening_tiles # <<>> THEN {0} ELSE {}}

\* what the view of `seen` holds about the player at seat j
ShownOf(seen, j) == seen.players[j]

\* C40: the view get_state_for_player gives player p is the same for two
\* games that differ only in what other players' hands hold (not in their
\* sizes) and in other players' wait sets; it holds p's own hand and, of
\* every other player, the hand size, the melds, the discards and the
\* listening flag, with an empty list of listening tiles.  Two such games
\* are joined by a chain of games that differ in one tile of one hand or in
\* one tile of one wait set, so the views are compared along every link of
\* such a chain that starts at a reachable game.
C40_ViewHidesOthers ==
    game.game_state = "playing" =>
        \A i, j \in 1..Len(game.players) :
            LET pid == game.players[i].player_id
                seen == get_state_for_player(game, pid)
            IN /\ seen.your_hand = game.players[i].hand
               /\ i # j =>
                     /\ ShownOf(seen, j) =
                           [player_id |-> game.players[j].player_id,
                            is_current_turn |-> (game.current_turn + 1 = j),
                            hand_size |-> Len(game.players[j].hand),
                            melds |-> game.players[j].melds,
                            discarded |-> game.players[j].discarded,
                            is_listening |-> game.players[j].is_listening,
                            listening_tiles |-> <<>>]
                     /\ \A g \in OneChangeAt(game, j) :
                           get_state_for_player(g, pid) = seen

\* a player is listening with a wait set that is not empty, and the view
\* given to another player shows the flag and no listening tile
C40_Witness ==
    /\ game.game_state = "playing"
    /\ \E i, j \in 1..Len(game.players) :
          /\ i # j
          /\ game.players[j].is_listening
          /\ game.players[j].listening_tiles # <<>>
          /\ game.players[j].hand # <<>>
          /\ get_state_for_player(game, game.players[i].player_id).players[j].is_listening
          /\ get_state_for_player(game, game.players[i].player_id).players[j].listening_tiles
                = <<>>

(***************************************************************************)
(* The threads of MahjongServer.                                           *)
(***************************************************************************)
At(t, label) == server.pc[t] = label

Goto(srv, t, label) == [srv EXCEPT !.pc[t] = label]

\* _reset_server_state_internal (called with the lock held)
reset_server_state_internal(srv) ==
    [srv EXCEPT !.clients = {},
                !.players = {},
                !.player_counter = 0,
                !.game_instance_exists = FALSE,
                !.game_started_actual = FALSE,
                !.pending_client_input = NoInput,
                !.overwritten_input = NoInput,
                !.shutdown_requested = TRUE]

\* self.game.game_state if self.game else "no game"
game_state_snapshot(srv) ==
    IF srv.game_instance_exists THEN srv.game_state ELSE "no game"

ServerStep(srv) ==
    /\ server' = srv
    /\ UNCHANGED <<game, last_call, prompt_to_send, calls, probe>>

\* a block that admits whenever the game waits, full or not
ConnectAnyNumber(r) ==
    /\ At(r, "connect")
    /\ server.lock = Free
    /\ IF server.shutdown_requested \/ game_state_snapshot(server) # "waiting"
       THEN ServerStep([Goto(server, r, "reply") EXCEPT
                           !.message_to_send_self[r] = "error"])
       ELSE LET pid == server.player_counter
            IN ServerStep([Goto(server, r, "reply") EXCEPT
                  !.message_to_send_self[r] = "connect_success",
                  !.player_id[r] = pid,
                  !.player_counter = pid + 1,
                  !.clients = @ \cup {pid},
                  !.players = @ \cup {pid}])

\* handle_client, the block under the lock that admits a connection whose
\* first message is a "connect"
Connect(r) ==
    /\ At(r, "connect")
    /\ server.lock = Free
    /\ LET game_ready == /\ server.game_instance_exists
                         /\ ~server.game_started_actual
                         /\ server.game_state = "waiting"
           can_add_player == game_ready
                             /\ Cardinality(server.players) < server.num_players
       IN IF server.shutdown_requested \/ ~game_ready \/ ~can_add_player
          THEN ServerStep([Goto(server, r, "reply") EXCEPT
                              !.message_to_send_self[r] = "error"])
          ELSE LET pid == server.player_counter
               IN ServerStep([Goto(server, r, "reply") EXCEPT
                     !.message_to_send_self[r] = "connect_success",
                     !.player_id[r] = pid,
                     !.player_counter = pid + 1,
                     !.clients = @ \cup {pid},
                     !.players = @ \cup {pid},
                     !.game_players =
                         IF Cardinality(@) < server.num_players
                         THEN @ \cup {pid} ELSE @])

\* handle_client: the answer is sent with the lock not held; after an error
\* the connection is closed and the thread returns ("done")
SendReply(r) ==
    /\ At(r, "reply")
    /\ LET srv == [server EXCEPT !.message_to_send_self[r] = "none",
                                 !.reply_sent[r] = server.message_to_send_self[r]]
       IN IF server.message_to_send_self[r] = "error"
          THEN ServerStep(Goto(srv, r, "done"))
          ELSE ServerStep(Goto(srv, r, "joined"))

\* handle_client: send_json raises, the client has gone before the answer
\* could be sent; remove_player is called for an admitted player
SendReplyFails(r) ==
    /\ At(r, "reply")
    /\ LET srv == [server EXCEPT !.message_to_send_self[r] = "none"]
       IN IF server.player_id[r] # NoPlayer
          THEN ServerStep(Goto(srv, r, "remove"))
          ELSE ServerStep(Goto(srv, r, "done"))

\* handle_client: broadcast_message(player_joined), which takes the lock
BroadcastJoined(r) ==
    /\ At(r, "joined")
    /\ server.lock = Free
    /\ ServerStep(Goto(server, r, "recv"))

\* handle_client: receive_json returns a message of the client
ReceiveInput(r) ==
    /\ At(r, "recv")
    /\ ~server.shutdown_requested
    /\ \E type \in {"action", "action_response"} :
          ServerStep([Goto(server, r, "queue") EXCEPT !.data_type[r] = type])

\* a block that leaves an input that has not been taken yet where it is
QueueInputKeepsOld(r) ==
    /\ At(r, "queue")
    /\ server.lock = Free
    /\ LET type == server.data_type[r]
           srv == [server EXCEPT !.data_type[r] = "none"]
       IN IF server.shutdown_requested
          THEN ServerStep(Goto(srv, r, "remove"))
          ELSE IF /\ server.game_started_actual
                  /\ game_state_snapshot(server) = "playing"
                  /\ server.pending_client_input = NoInput
          THEN ServerStep([Goto(srv, r, "recv") EXCEPT
                  !.pending_client_input =
                      [type |-> type, player_id |-> server.player_id[r]]])
          ELSE ServerStep(Goto(srv, r, "recv"))

\* handle_client: the block under the lock that fills _pending_client_input
QueueInput(r) ==
    /\ At(r, "queue")
    /\ server.lock = Free
    /\ LET type == server.data_type[r]
           srv == [server EXCEPT !.data_type[r] = "none"]
       IN IF server.shutdown_requested
          THEN ServerStep(Goto(srv, r, "remove"))
          ELSE IF server.game_started_actual /\ game_state_snapshot(server) = "playing"
          THEN ServerStep([Goto(srv, r, "recv") EXCEPT
                  !.overwritten_input = server.pending_client_input,
                  !.pending_client_input =
                      [type |-> type, player_id |-> server.player_id[r]]])
          ELSE ServerStep(Goto(srv, r, "recv"))

\* handle_client: receive_json returns None (the client is gone, or the
\* reset has closed the socket) and the loop is left
Disconnect(r) ==
    /\ At(r, "recv")
    /\ ServerStep(Goto(server, r, "remove"))

\* remove_player up to its call of Game.end_game; the lock is kept over the
\* call, and given back at once when there is no call
RemovePlayer(r) ==
    /\ At(r, "remove")
    /\ server.lock = Free
    /\ LET pid == server.player_id[r]
           player_obj_to_remove == pid \in server.players
           srv == [server EXCEPT !.clients = @ \ {pid}, !.players = @ \ {pid}]
       IN IF server.shutdown_requested \/ pid \notin server.clients
          THEN ServerStep(Goto(server, r, "done"))
          ELSE IF /\ server.game_instance_exists
                  /\ server.game_started_actual
                  /\ server.game_state = "playing"
                  /\ player_obj_to_remove
          THEN ServerStep([Goto(srv, r, "end_game") EXCEPT
                              !.lock = r,
                              !.winner_id[r] = NoPlayer,
                              !.winning_tile_arg[r] = NoTile])
          ELSE IF ~server.game_started_actual /\ player_obj_to_remove
          THEN ServerStep([Goto(srv, r, "done") EXCEPT !.game_players = @ \ {pid}])
          ELSE ServerStep(Goto(srv, r, "done"))

\* where a thread goes on when its call of end_game returns: remove_player
\* leaves its with-block; game_loop goes to the end of its iteration when a
\* handler made the call; when its exception handler made it, under the
\* lock, game_loop resets the server, leaves the with-block and ends the
\* iteration
EndGameReturns(srv, t) ==
    IF t = GameLoopThread
    THEN IF srv.lock = GameLoopThread
         THEN [Goto(reset_server_state_internal(srv), t, "head") EXCEPT !.lock = Free]
         ELSE Goto(srv, t, "tail")
    ELSE [Goto(srv, t, "done") EXCEPT !.lock = Free]

\* Game.end_game, statement by statement
EndGameCheck(t) ==
    /\ At(t, "end_game")
    /\ IF server.game_state = "finished"
       THEN ServerStep(EndGameReturns(server, t))
       ELSE ServerStep(Goto(server, t, "set_game_state"))

EndGameSetState(t) ==
    /\ At(t, "set_game_state")
    /\ ServerStep([Goto(server, t, "set_winning_player_id") EXCEPT
                      !.game_state = "finished"])

EndGameSetWinner(t) ==
    /\ At(t, "set_winning_player_id")
    /\ ServerStep([Goto(server, t, "set_winning_tile") EXCEPT
                      !.winning_player_id = server.winner_id[t]])

EndGameSetTile(t) ==
    /\ At(t, "set_winning_tile")
    /\ ServerStep([Goto(server, t, "broadcast_game_over") EXCEPT
                      !.winning_tile = server.winning_tile_arg[t]])

\* end_game's broadcast_message: MahjongServer.broadcast_message takes the
\* lock (whoever holds it, the thread waits), copies the clients and sends
EndGameBroadcast(t) ==
    /\ At(t, "broadcast_game_over")
    /\ server.lock = Free
    /\ IF server.shutdown_requested \/ server.clients = {}
       THEN ServerStep(EndGameReturns(server, t))
       ELSE ServerStep([EndGameReturns(server, t) EXCEPT !.game_over_sent = @ + 1])

\* game_loop: the first block under the lock
LoopHead ==
    /\ At(GameLoopThread, "head")
    /\ IF server.shutdown_requested
       THEN ServerStep(Goto(server, GameLoopThread, "done"))
       ELSE
       /\ server.lock = Free
       /\ LET starts == /\ server.game_instance_exists
                        /\ ~server.game_started_actual
                        /\ game_state_snapshot(server) = "waiting"
                        /\ Cardinality(server.players) = server.num_players
                        /\ Cardinality(server.game_players) = server.num_players
              s1 == IF starts
                    THEN [server EXCEPT !.game_state = "playing",
                                        !.game_started_actual = TRUE]
                    ELSE server
              current_game_state_snapshot ==
                  IF starts THEN "playing" ELSE game_state_snapshot(server)
              takes == /\ s1.game_started_actual
                       /\ current_game_state_snapshot = "playing"
                       /\ s1.pending_client_input # NoInput
              s2 == [s1 EXCEPT !.game_started_this_iteration = starts,
                               !.needs_broadcast = FALSE,
                               !.action_to_process =
                                   IF takes THEN s1.pending_client_input ELSE NoInput,
                               !.pending_client_input = IF takes THEN NoInput ELSE @,
                               !.overwritten_input = IF takes THEN NoInput ELSE @]
              game_ended_this_iteration ==
                  s1.game_instance_exists /\ current_game_state_snapshot = "finished"
          IN IF game_ended_this_iteration
             THEN ServerStep(Goto(reset_server_state_internal(s2), GameLoopThread, "head"))
             ELSE IF takes
             THEN ServerStep(Goto(s2, GameLoopThread, "handler"))
             ELSE ServerStep(Goto(s2, GameLoopThread, "tail"))

\* game_loop: handle_player_action or handle_action_response, called with
\* the lock not held, returns and has not ended the game
HandlerReturns ==
    /\ At(GameLoopThread, "handler")
    /\ ServerStep(Goto(server, GameLoopThread, "tail"))

\* game_loop: the handler comes to a win and calls end_game
HandlerEndsGame ==
    /\ At(GameLoopThread, "handler")
    /\ server.action_to_process.player_id \in server.game_players
    /\ ServerStep([Goto(server, GameLoopThread, "end_game") EXCEPT
                      !.winner_id[GameLoopThread] = server.action_to_process.player_id,
                      !.winning_tile_arg[GameLoopThread] = ZIMO])

\* game_loop: the handler raises an exception
HandlerRaises ==
    /\ At(GameLoopThread, "handler")
    /\ ServerStep(Goto(server, GameLoopThread, "except"))

\* game_loop: the exception handler takes the lock and, with the game still
\* playing, calls end_game; the lock is kept over the call
ExceptHandler ==
    /\ At(GameLoopThread, "except")
    /\ server.lock = Free
    /\ IF server.game_instance_exists /\ server.game_state = "playing"
       THEN ServerStep([Goto(server, GameLoopThread, "end_game") EXCEPT
                           !.lock = GameLoopThread,
                           !.winner_id[GameLoopThread] = NoPlayer,
                           !.winning_tile_arg[GameLoopThread] = NoTile])
       ELSE ServerStep(Goto(reset_server_state_internal(server),
                            GameLoopThread, "head"))

\* game_loop: the second block under the lock
LoopEnd ==
    /\ At(GameLoopThread, "tail")
    /\ server.lock = Free
    /\ IF server.shutdown_requested
       THEN ServerStep(Goto(server, GameLoopThread, "done"))
       ELSE LET current_game_state_snapshot == game_state_snapshot(server)
                s1 == [server EXCEPT !.needs_broadcast =
                          /\ server.game_started_actual
                          /\ current_game_state_snapshot = "playing"
                          /\ (\/ server.game_started_this_iteration
                              \/ server.action_to_process # NoInput)]
            IN IF current_game_state_snapshot = "finished"
               THEN ServerStep(Goto(reset_server_state_internal(s1),
                                    GameLoopThread, "head"))
               ELSE ServerStep(Goto(s1, GameLoopThread, "publish"))

\* game_loop: broadcast_game_state and the prompt, both through the lock
Publish ==
    /\ At(GameLoopThread, "publish")
    /\ server.needs_broadcast => server.lock = Free
    /\ ServerStep([Goto(server, GameLoopThread, "head") EXCEPT
                      !.needs_broadcast = FALSE,
                      !.game_started_this_iteration = FALSE,
                      !.action_to_process = NoInput])

ReceiverStep(r) ==
    \/ Connect(r)
    \/ SendReply(r)
    \/ BroadcastJoined(r)
    \/ QueueInput(r)
    \/ RemovePlayer(r)

EndGameStep(t) ==
    \/ EndGameCheck(t)
    \/ EndGameSetState(t)
    \/ EndGameSetWinner(t)
    \/ EndGameSetTile(t)
    \/ EndGameBroadcast(t)

GameLoopStep ==
    \/ LoopHead
    \/ HandlerReturns
    \/ HandlerEndsGame
    \/ HandlerRaises
    \/ ExceptHandler
    \/ LoopEnd
    \/ Publish

\* a client that keeps to the protocol: it answers the response window of a
\* game that plays with one action_response and sends nothing after it
SendResponse(r) ==
    /\ At(r, "recv")
    /\ ~server.shutdown_requested
    /\ server.game_started_actual
    /\ game_state_snapshot(server) = "playing"
    /\ ~server.response_sent[r]
    /\ ServerStep([Goto(server, r, "queue") EXCEPT !.data_type[r] = "action_response",
                                                  !.response_sent[r] = TRUE])

\* what the clients do: send an input, go away
ClientStep(r) ==
    \/ ReceiveInput(r)
    \/ Disconnect(r)
    \/ SendReplyFails(r)

NextServer ==
    \/ \E r \in Receivers : ReceiverStep(r)
    \/ \E r \in Receivers : ClientStep(r)
    \/ \E t \in Threads : EndGameStep(t)
    \/ GameLoopStep

\* NumConnections clients connect; the other receivers are never started
InitServer ==
    /\ game = NewGame(MinPlayers, FALSE)
    /\ last_call = Call("init", NoPlayer, "", NoTile)
    /\ prompt_to_send = NoPrompt
    /\ calls = 0
    /\ server = [NewServer EXCEPT !.pc = [t \in Threads |->
                    IF t \in Receivers /\ t >= NumConnections THEN "unused" ELSE @[t]]]
    /\ probe = NoProbe

SpecServer == InitServer /\ [][NextServer]_vars

\* the server with ExtraConnections clients more than that
InitAdmission ==
    /\ game = NewGame(MinPlayers, FALSE)
    /\ last_call = Call("init", NoPlayer, "", NoTile)
    /\ prompt_to_send = NoPrompt
    /\ calls = 0
    /\ server = NewServer
    /\ probe = NoProbe

SpecAdmission == InitAdmission /\ [][NextServer]_vars

\* the server with clients that each send one action_response and stay
NextHandOff ==
    \/ \E r \in Receivers : ReceiverStep(r)
    \/ \E r \in Receivers : SendResponse(r)
    \/ \E t \in Threads : EndGameStep(t)
    \/ GameLoopStep

SpecHandOff ==
    /\ InitServer
    /\ [][NextHandOff]_vars
    /\ \A r \in Receivers : WF_vars(ReceiverStep(r))
    /\ \A t \in Threads : WF_vars(EndGameStep(t))
    /\ WF_vars(GameLoopStep)

\* every thread of the server goes on running; the clients owe nothing
SpecServerFair ==
    /\ InitServer
    /\ [][NextServer]_vars
    /\ \A r \in Receivers : WF_vars(ReceiverStep(r))
    /\ \A t \in Threads : WF_vars(EndGameStep(t))
    /\ WF_vars(GameLoopStep)

(***************************************************************************)
(* Properties of the server.                                               *)
(***************************************************************************)
\* C4: a receiver whose remove_player finds the phase "playing" and calls
\* end_game leads to: the phase is finished, a game_over has been sent to the
\* clients, and that receiver is through with the removal and holds no lock.
C4_DisconnectEndsSession ==
    \A r \in Receivers :
        At(r, "end_game") ~>
            /\ At(r, "done")
            /\ server.lock # r
            /\ server.game_state = "finished"
            /\ server.game_over_sent > 0

\* the labels at which a thread is inside the engine, reading or writing it
InEngine == {"handler", "end_game", "set_game_state", "set_winning_player_id",
             "set_winning_tile"}

\* C5: a thread that is reading or writing the state of the engine holds the
\* lock; so does the game loop while a handler of the engine runs.
C5_EngineUnderMutex ==
    \A t \in Threads : server.pc[t] \in InEngine => server.lock = t

\* C6: once the phase is finished and a winner is recorded, the winner id
\* does not change any more, and game_over is never sent more than once.
C6_Step ==
    /\ (server.game_state = "finished" /\ server.winning_player_id # NoPlayer)
          => server'.winning_player_id = server.winning_player_id
    /\ server'.game_over_sent <= 1

C6_FinishedOnce == [][C6_Step]_vars

\* receiver r leaves the block that fills _pending_client_input
Stored(r) == At(r, "queue") /\ server'.pc[r] = "recv"

\* the game loop leaves its first block with an input to process
Taken == At(GameLoopThread, "head") /\ server'.pc[GameLoopThread] = "handler"

\* C13: the slot for the input of the clients holds at most one input.  A
\* receiver that stores an action or action_response while the game has
\* started and plays puts it in the place of whatever the slot held; in any
\* other phase the input is dropped and the slot stays as it was.  The game
\* loop takes what the slot holds, the input stored last, and empties it; it
\* starts a handler only from the head of an iteration, with the input it
\* took there.
C13_Step ==
    /\ \A r \in Receivers :
          Stored(r) =>
             IF server.game_started_actual /\ game_state_snapshot(server) = "playing"
             THEN server'.pending_client_input =
                      [type |-> server.data_type[r], player_id |-> server.player_id[r]]
             ELSE server'.pending_client_input = server.pending_client_input
    /\ server'.pending_client_input \notin {server.pending_client_input, NoInput}
          => \E r \in Receivers : Stored(r)
    /\ Taken =>
          /\ server.pending_client_input # NoInput
          /\ server'.action_to_process = server.pending_client_input
          /\ server'.pending_client_input = NoInput
    /\ server'.pc[GameLoopThread] = "handler" /\ ~At(GameLoopThread, "handler")
          => Taken
    /\ (server'.action_to_process # server.action_to_process
           /\ server'.action_to_process # NoInput) => Taken

C13_SingleSlot == [][C13_Step]_vars

\* a receiver has stored an input over one of another kind or sender that
\* the game loop had not taken
C13_Witness ==
    /\ server.overwritten_input # NoInput
    /\ server.pending_client_input # NoInput
    /\ server.overwritten_input # server.pending_client_input

\* receiver r leaves the block that admits a connection
Admits(r) == At(r, "connect") /\ server'.pc[r] = "reply"

\* C16: a connect request is accepted exactly when the phase is "waiting"
\* and fewer than num_players players are attached.  An accepted player
\* gets an id above every id given before and joins the roster; a rejected
\* request leaves the roster as it was, its answer is an error message (the
\* only thing sent on that connection, and sent unless the client has gone),
\* and after it the thread has closed the connection and returned.  The
\* roster never holds more than num_players players.
C16_Step ==
    /\ \A r \in Receivers :
          Admits(r) =>
             LET id == server'.player_id[r]
                 accepted == id # NoPlayer
             IN /\ accepted <=> /\ game_state_snapshot(server) = "waiting"
                                /\ Cardinality(server.players) < server.num_players
                /\ accepted =>
                      /\ \A t \in Receivers \ {r} : server.player_id[t] < id
                      /\ id \notin server.players
                      /\ server'.players = server.players \cup {id}
                      /\ server'.clients = server.clients \cup {id}
                      /\ server'.message_to_send_self[r] = "connect_success"
                /\ ~accepted =>
                      /\ server'.message_to_send_self[r] = "error"
                      /\ server'.players = server.players
                      /\ server'.clients = server.clients
                      /\ server'.game_players = server.game_players
    /\ \A r \in Receivers :
          (At(r, "reply") /\ server.message_to_send_self[r] = "error"
             /\ ~(server'.pc[r] = "reply"))
          => /\ server'.pc[r] = "done"
             /\ server'.player_id[r] = NoPlayer
             /\ server'.reply_sent[r] \in {"error", "none"}
             /\ server'.players = server.players
    /\ Cardinality(server'.players) <= server.num_players
    /\ Cardinality(server'.game_players) <= server.num_players

C16_Admission == [][C16_Step]_vars

\* a connect request has been turned down with the roster full, and
\* answered with an error
C16_Witness ==
    \E r \in Receivers :
        /\ At(r, "done")
        /\ server.reply_sent[r] = "error"
        /\ server.player_id[r] = NoPlayer
        /\ Cardinality(server.players) = server.num_players
        /\ \A t \in Receivers \ {r} : server.player_id[t] \in server.players

\* C18: when a handler has raised and the exception handler of game_loop,
\* holding the lock with the game still playing, has called end_game, the
\* session comes to an orderly end: the phase is finished, a game_over has
\* been sent to the clients, and the game loop has reset the server and
\* given the lock back.
C18_ErrorEndsSession ==
    (At(GameLoopThread, "end_game") /\ server.lock = GameLoopThread) ~>
        /\ server.game_state = "finished"
        /\ server.game_over_sent > 0
        /\ server.shutdown_requested
        /\ ~server.game_instance_exists
        /\ server.lock # GameLoopThread

\* the session has been cleared and the server is shutting down
Cleared_Session ==
    /\ server.clients = {}
    /\ server.players = {}
    /\ ~server.game_instance_exists
    /\ server.pending_client_input = NoInput
    /\ server.shutdown_requested

\* C20: once the phase is finished the game loop comes to clear the session
\* (clients, roster, game instance, pending input) and to set the shutdown
\* flag; from the finish on no game is started and no connect is accepted.
C20_Step ==
    (server.game_state = "finished" \/ server.shutdown_requested) =>
        /\ server'.game_state # "playing"
        /\ ~(server'.game_started_actual /\ ~server.game_started_actual)
        /\ server'.player_counter <= server.player_counter
        /\ \A r \in Receivers : Admits(r) => server'.player_id[r] = NoPlayer

C20_OneGamePerLifetime ==
    /\ (server.game_state = "finished") ~> Cleared_Session
    /\ [][C20_Step]_vars

\* the game loop is in the handler with the action_response of receiver r
Processed(r) ==
    /\ At(GameLoopThread, "handler")
    /\ server.action_to_process =
           [type |-> "action_response", player_id |-> server.player_id[r]]

Broadcasts ==
    /\ ~server.shutdown_requested
    /\ \/ \E r \in Receivers : At(r, "joined") /\ server'.pc[r] = "recv"
       \/ /\ At(GameLoopThread, "publish")
          /\ server.needs_broadcast
          /\ server'.pc[GameLoopThread] = "head"

\* the client of receiver r is registered and its connect_success is not
\* sent yet
AwaitsWelcome(r) ==
    /\ At(r, "reply")
    /\ server.message_to_send_self[r] = "connect_success"
    /\ server.player_id[r] \in server.clients

\* C38: no player_joined or game_state is written to the socket of a client
\* whose connect_success has not been written yet.
C38_Step ==
    \A r \in Receivers : AwaitsWelcome(r) => ~Broadcasts

C38_WelcomeFirst == [][C38_Step]_vars
====
